---- MODULE Spec2Model ----
(***************************************************************************)
(* buildwithnexus: the security layer (secret validation, integrity seal,  *)
(* sealed secret store), the SSH trust-on-first-use layer and the phased   *)
(* init pipeline, as state machines translated from the TypeScript source. *)
(*                                                                         *)
(* The module holds several specifications over one set of variables; each *)
(* one moves the variables of one component and leaves the others alone:   *)
(*   SpecValidate  core/dlp.ts validateKeyValue                            *)
(*   SpecSeal      core/dlp.ts sealKeysFile / verifyKeysFile               *)
(*   SpecStore     core/secrets.ts saveKeys / loadKeys, commands/keys.ts,  *)
(*                 and the steps of commands/init.ts that handle the keys  *)
(*   SpecTrust     core/ssh.ts, core/health.ts, core/event-stream.ts       *)
(*   SpecInit      commands/init.ts runInit and its phases                 *)
(***************************************************************************)
EXTENDS Integers, Sequences, FiniteSets, Bags, TLC

VARIABLES
    \* ---- validateKeyValue (core/dlp.ts)
    vName,        \* keyName argument
    vValue,       \* value argument, a sequence of characters
    vResult,      \* how the call ended, or NotCalled
    vMessage,     \* the message of the DlpViolation it threw, else <<>>
    \* ---- the installation directory ~/.buildwithnexus (core/secrets.ts, core/dlp.ts)
    homeDir,      \* the directory exists
    keysFile,     \* .env.keys: NoFile, or File(lines), a line being [k |-> name, v |-> value]
    hmacFile,     \* .keys.hmac: NoFile, or File(<<hex text>>)
    auditLog,     \* audit.log: the event and detail of its lines, oldest first
    ctxKeys,      \* ctx.keys of the init run once phase 1 has set it, else <<>>
    staged,       \* the key lines init has uploaded to the VM, else <<>>
    sealedOf,     \* history: what sealKeysFile last sealed (bytes and key), or NoSeal
    writtenBy,    \* history: who wrote the bytes .env.keys holds now
    lastVerify,   \* history: the last verifyKeysFile call on the files as they are now
    lastLoad,     \* history: the last loadKeys call on the files as they are now
    lastSave,     \* history: the last saveKeys call, while the files stay as it left them
    \* ---- SSH trust layer (core/ssh.ts)
    pinFile,      \* ssh/vm_host_key.pin
    knownHosts,   \* host key recorded in ssh/known_hosts_nexus_vm by the system ssh, or None
    conn,         \* NodeSSH connection attempts in flight: a bag of [op, v], v the attempt's verifier
    wfs,          \* position of the waitForSsh loop
    wfsMismatch,  \* history: the running waitForSsh saw its verifier reject a host key
    last,         \* history: the connection attempt that finished most recently
    firstFp,      \* history: fingerprint shown to the first verifier that ran since the pin was absent
    overlapped,   \* history: a verifier was created while another attempt was in flight
    \* ---- one run of the init command (commands/init.ts)
    iStatus,      \* "idle", "running", "completed", "failed" (runInit rethrew), "exited" (process.exit)
    iPhase,       \* number of the phase that is running (the loop index + 1), 0 before the loop
    iStep,        \* the step of that phase that runs next
    started,      \* history: the phases whose run was called, in call order
    returned,     \* history: the phases whose run returned normally
    thrownIn,     \* history: the phase whose run threw, 0 if none
    ctx,          \* the InitContext fields the runner and the phases branch on
    qemu,         \* the QEMU process of this run: "none", "running", "terminated"
    vmPid,        \* vm/qemu.pid holds the pid of that process
    configPorts,  \* the ports config.json holds
    completionShown, \* showCompletion was called
    rInput,       \* the string redact is called with
    rOutput,      \* what redact returned, or NotRedacted
    aLog,         \* audit.log as audit itself sees it: its lines with their byte lengths
    aBackup,      \* audit.log.1: NoFile, or the lines it holds
    aLast,        \* history: how the last audit call went, or NoAudit
    procEnv,      \* process.env: each sampled name's value, Undefined if unset
    clean,        \* the object the last scrubEnv() returned: which object it is, its entries, whether it is as returned
    child,        \* the last subprocess started: its call site and its environment
    poll,         \* the readiness wait in progress: the function, its timeout, the time since it started, where it is, what it returned
    host,         \* the machine's ports: who listens on each requested port, on which address, and how busy the ports next to them are
    pr,           \* one call of resolvePortConflicts: where it is, the entry it is at, what it found and offered, the ports it will return, and the history of its probes and signals
    sshConfig,    \* the Port of the "Host nexus-vm" entry of ~/.ssh/config, or None without the entry
    es,           \* the EventStream object of the shell: active, pollInterval (a timer handle, 0 for null), and with them the interval timers scheduled, the handles made so far and the last method called
    sh,           \* the shell session: the sshExec calls in flight by who issued them, the /ssh handlers waiting for the interactive ssh, whether the process has exited
    mk,           \* one call of maskKey: the key it was given and the string it returned
    rp,           \* the REPL of the shell: the history file, the history array, the lines of the session that were not blank, how many entries the constructor loaded, whether the process runs, and what ended it
    ci,           \* the cloud-init phase: where it is, the runs so far, user-data.yaml, meta-data.yaml, the copy of user-data in cidata-staging, init.iso, how the last run ended and the events it audited
    feed,         \* the event feed of the shell: the EventStream object with its lastId, the polls whose sshExec has not returned (the cursor each was issued with and the blocks the engine had then), the blocks the engine has published, the polls issued so far, and the ids handed to onEvent in order (0 for an event without id)
    vmProc        \* the VM's PID file and the processes it may name: vm/qemu.pid, the command name of the process with each sampled PID, the stopVm calls so far, and the history of the last one (the file it read, the PID readValidPid returned, the command name ps printed, the signals it sent)

validateVars == <<vName, vValue, vResult, vMessage>>

storeVars ==
    <<homeDir, keysFile, hmacFile, auditLog, ctxKeys, staged, sealedOf, writtenBy,
      lastVerify, lastLoad, lastSave>>

trustVars == <<pinFile, knownHosts, conn, wfs, wfsMismatch, last, firstFp, overlapped>>

initVars ==
    <<iStatus, iPhase, iStep, started, returned, thrownIn, ctx, qemu, vmPid,
      configPorts, completionShown>>

redactVars == <<rInput, rOutput>>

\* The variables of the data-loss-prevention helpers other than validation.
auditVars == <<aLog, aBackup, aLast>>

envVars == <<procEnv, clean, child>>

portVars == <<host, pr, sshConfig>>

shellVars == <<es, sh>>

maskVars == <<mk>>

replVars == <<rp>>

cloudInitVars == <<ci>>

feedVars == <<feed>>

stopVmVars == <<vmProc>>

dlpVars == <<redactVars, auditVars, envVars, poll, portVars, shellVars, maskVars, replVars, cloudInitVars, feedVars, stopVmVars>>

vars == <<validateVars, storeVars, trustVars, initVars, dlpVars>>

(***************************************************************************)
(* Bounds                                                                  *)
(***************************************************************************)

\* Connection attempts the event loop carries at once.
MaxInFlight == 2

\* Interval timers an EventStream creates in the runs looked at.
MaxTimers == 3

\* The longest key the model hands to maskKey.
MaxKeyLen == 45

\* How many times the model calls stopVm on one installation.
MaxStops == 2

\* Polls of the event feed the model has in flight at once, and issues in all.
MaxPolls == 2

MaxIssued == 3

\* How many times the model runs the cloud-init phase on one installation.
MaxRuns == 2

\* How many lines that are not blank the model enters in one shell session.
MaxLines == 3

\* Lines audit.log holds when the commands stop being run: a command starts only
\* while the log holds fewer (the log stays far below the size at which it is
\* rotated).
MaxAudit == 2

\* Lines audit.log holds when the audit calls stop being made.
MaxAuditLines == 2

\* Bytes of a short audit line.
ShortLine == 64

\* Characters the seal text is given, and digits it loses, from outside.
MaxTail == 2

(***************************************************************************)
(* Files and text                                                          *)
(***************************************************************************)

\* A path of the installation directory: absent, or a file with its text.
NoFile == [exists |-> FALSE, text |-> <<>>]
File(text) == [exists |-> TRUE, text |-> text]

None == "none"

Whitespace == {" ", "\n", "\t", "\r"}

RECURSIVE TrimStart(_)
TrimStart(s) ==
    IF s # <<>> /\ Head(s) \in Whitespace THEN TrimStart(Tail(s)) ELSE s

RECURSIVE TrimEnd(_)
TrimEnd(s) ==
    IF s # <<>> /\ s[Len(s)] \in Whitespace THEN TrimEnd(SubSeq(s, 1, Len(s) - 1)) ELSE s

\* String.prototype.trim
Trim(s) == TrimEnd(TrimStart(s))

Rep(c, n) == [i \in 1..n |-> c]

\* No shell_history file, and a REPL constructed without one.
NoHistoryFile == [exists |-> FALSE, old |-> 0, lines |-> <<>>]

NoRepl == [file |-> NoHistoryFile, history |-> [old |-> 0, lines |-> <<>>], entered |-> <<>>,
           loaded |-> 0, pc |-> "prompt", how |-> None]

\* A file that is not there, and the installation before any cloud-init phase ran.
Absent == [exists |-> FALSE, keys |-> {}]

NoCloudInit == [pc |-> "idle", runs |-> 0, userData |-> Absent, metaData |-> FALSE, staged |-> Absent,
                iso |-> FALSE, result |-> None, log |-> <<>>]

\* maskKey has not been called.
NoMask == [key |-> <<>>, result |-> <<>>, called |-> FALSE]

\* new EventStream(onEvent): not active, no timer.
NewEventStream == [active |-> FALSE, pollInterval |-> 0, timers |-> {}, made |-> 0, lastCall |-> None]

\* The event feed before start(): lastId = "0", nothing published, nothing delivered.
NoFeed == [stream |-> [active |-> FALSE, pollInterval |-> 0, timers |-> {}, made |-> 0,
                       lastCall |-> None, lastId |-> 0],
           polls |-> <<>>, published |-> 0, issued |-> 0, delivered |-> <<>>]

\* No process has the PID, and stopVm was not called since the last launch.
NoProcess == <<>>

NoStop == [called |-> FALSE, raw |-> NoFile, pid |-> 0, comm |-> NoProcess, signals |-> {}]

\* The largest PID readValidPid accepts, and the PIDs the model gives a process to.
PidMax == 4194304

SamplePids == {2, 4711, PidMax}

\* An installation without PID file on a machine where none of the sampled PIDs runs.
NoVm == [file |-> NoFile, table |-> [p \in SamplePids |-> NoProcess], calls |-> 0, last |-> NoStop]

\* The shell before any line was read.
NoShell == [flying |-> [o \in {"poll", "message", "command"} |-> 0], inSsh |-> 0, exited |-> FALSE]

\* Nothing listens on any port the model looks at.
DefaultPorts == [ssh |-> 2222, http |-> 4200, https |-> 8443]

NoHost == [occ |-> [k \in {"ssh", "http", "https"} |-> "free"], near |-> "free", listen |-> "0.0.0.0",
           req |-> DefaultPorts]

\* resolvePortConflicts was not called.
NoResolve ==
    [pc |-> "idle", i |-> 0, resolved |-> [ssh |-> 0, http |-> 0, https |-> 0],
     blocker |-> 0, alt |-> 0, choices |-> {}, action |-> None, log |-> <<>>]

\* No readiness wait was started yet.
NoPoll == [fn |-> None, timeoutMs |-> 0, elapsed |-> 0, calls |-> 0, pc |-> "idle", probe |-> None, result |-> None]

\* No audit call was made yet.
NoAudit == [called |-> FALSE, threw |-> None, failed |-> None]

(***************************************************************************)
(* Secret validation (core/dlp.ts)                                         *)
(***************************************************************************)

UpperChars == {"A","B","C","D","E","F","G","H","I","J","K","L","M",
               "N","O","P","Q","R","S","T","U","V","W","X","Y","Z"}
LowerChars == {"a","b","c","d","e","f","g","h","i","j","k","l","m",
               "n","o","p","q","r","s","t","u","v","w","x","y","z"}
DigitChars == {"0","1","2","3","4","5","6","7","8","9"}

\* The character class [A-Za-z0-9_-] of every KEY_VALIDATORS pattern.
SafeChars == UpperChars \cup LowerChars \cup DigitChars \cup {"_", "-"}

\* FORBIDDEN_KEY_CHARS: newline, carriage return, tab, both quotes, backslash, backtick
\* (written U+0060 here), and $ { } ( ) ; & | < > ! # % ^
ForbiddenChars ==
    {"\n", "\r", "\t", "'", "\"", "\\", "U+0060", "$", "{", "}", "(", ")",
     ";", "&", "|", "<", ">", "!", "#", "%", "^"}

KeyMinLen == 10
KeyMaxLen == 256
ProviderBodyMin == 20
GoogleBodyMin == 35
MasterBodyMax == 64

\* The upper limit of a {min,} quantifier.
Unbounded == -1

\* FORBIDDEN_KEY_CHARS.test(value)
HasForbiddenChar(value) == \E i \in DOMAIN value : value[i] \in ForbiddenChars

\* /^<prefix>[A-Za-z0-9_-]{min,max}$/.test(value); max = Unbounded for {min,}
RegexTest(prefix, min, max, value) ==
    /\ Len(value) >= Len(prefix) + min
    /\ (max # Unbounded => Len(value) <= Len(prefix) + max)
    /\ SubSeq(value, 1, Len(prefix)) = prefix
    /\ \A i \in (Len(prefix) + 1)..Len(value) : value[i] \in SafeChars

\* The own properties of KEY_VALIDATORS.
KnownKeyNames == {"ANTHROPIC_API_KEY", "OPENAI_API_KEY", "GOOGLE_API_KEY", "NEXUS_MASTER_SECRET"}

\* Names the object literal KEY_VALIDATORS inherits from Object.prototype:
\* KEY_VALIDATORS[name] is then a function (or the prototype object), which is
\* truthy and has no test method.
ObjectPrototypeNames ==
    {"constructor", "toString", "valueOf", "hasOwnProperty", "isPrototypeOf",
     "propertyIsEnumerable", "toLocaleString", "__proto__"}

\* KEY_VALIDATORS[keyName].test(value) for an own property
KeyValidatorTest(keyName, value) ==
    CASE keyName = "ANTHROPIC_API_KEY" ->
            RegexTest(<<"s","k","-","a","n","t","-">>, ProviderBodyMin, Unbounded, value)
      [] keyName = "OPENAI_API_KEY" ->
            RegexTest(<<"s","k","-">>, ProviderBodyMin, Unbounded, value)
      [] keyName = "GOOGLE_API_KEY" ->
            RegexTest(<<"A","I","z","a">>, GoogleBodyMin, Unbounded, value)
      [] keyName = "NEXUS_MASTER_SECRET" ->
            RegexTest(<<>>, ProviderBodyMin, MasterBodyMax, value)

\* How a call ends: it returns, or it throws an error of some class; a DlpViolation
\* carries the message of the check that failed.
Returned == [threw |-> None, check |-> None]
Violation(check) == [threw |-> "DlpViolation", check |-> check]
TypeError == [threw |-> "TypeError", check |-> None]
NotCalled == [threw |-> "pending", check |-> None]

\* validateKeyValue(keyName, value)
ValidateKeyValue(keyName, value) ==
    IF HasForbiddenChar(value) THEN Violation("forbidden_chars")
    ELSE IF Len(value) < KeyMinLen \/ Len(value) > KeyMaxLen THEN Violation("length")
    ELSE IF keyName \in KnownKeyNames
        THEN (IF ~KeyValidatorTest(keyName, value) THEN Violation("format") ELSE Returned)
    ELSE IF keyName \in ObjectPrototypeNames
        THEN TypeError     \* validator.test is not a function
    ELSE Returned


\* ---- the messages of the violations (core/dlp.ts validateKeyValue, validateAllKeys;
\* core/secrets.ts saveKeys)

\* The characters of a key name.
NameChars(keyName) ==
    CASE keyName = "ANTHROPIC_API_KEY" ->
            <<"A","N","T","H","R","O","P","I","C","_","A","P","I","_","K","E","Y">>
      [] keyName = "OPENAI_API_KEY" ->
            <<"O","P","E","N","A","I","_","A","P","I","_","K","E","Y">>
      [] keyName = "GOOGLE_API_KEY" ->
            <<"G","O","O","G","L","E","_","A","P","I","_","K","E","Y">>
      [] keyName = "NEXUS_MASTER_SECRET" ->
            <<"N","E","X","U","S","_","M","A","S","T","E","R","_","S","E","C","R","E","T">>
      [] keyName = "CUSTOM_API_KEY" ->
            <<"C","U","S","T","O","M","_","A","P","I","_","K","E","Y">>
      [] keyName = "constructor" ->
            <<"c","o","n","s","t","r","u","c","t","o","r">>

\* The text each check puts after the key name.
CheckText(check) ==
    CASE check = "forbidden_chars" ->
            <<" ","c","o","n","t","a","i","n","s"," ","c","h","a","r","a","c","t","e","r","s"," ","t","h","a","t"," ","a","r","e"," ","n","o","t"," ","p","e","r","m","i","t","t","e","d"," ","i","n"," ","A","P","I"," ","k","e","y","s">>
      [] check = "length" ->
            <<" ","l","e","n","g","t","h"," ","o","u","t"," ","o","f"," ","e","x","p","e","c","t","e","d"," ","r","a","n","g","e"," ","(","1","0","-","2","5","6"," ","c","h","a","r","a","c","t","e","r","s",")">>
      [] check = "format" ->
            <<" ","d","o","e","s"," ","n","o","t"," ","m","a","t","c","h"," ","t","h","e"," ","e","x","p","e","c","t","e","d"," ","f","o","r","m","a","t"," ","f","o","r"," ","t","h","i","s"," ","k","e","y"," ","t","y","p","e">>

\* A validateKeyValue that puts the value in its message.
ViolationMessageEchoing(keyName, value) ==
    NameChars(keyName) \o CheckText(ValidateKeyValue(keyName, value).check) \o <<":", " ">> \o value

\* The message of the DlpViolation validateKeyValue(keyName, value) throws: the
\* template literal of the branch taken.
ViolationMessage(keyName, value) ==
    NameChars(keyName) \o CheckText(ValidateKeyValue(keyName, value).check)

\* The array validateAllKeys returns: the messages of the DlpViolations, in entry order.
RECURSIVE ValidateAllKeysMessages(_)
ValidateAllKeysMessages(keys) ==
    IF keys = <<>> THEN <<>>
    ELSE LET e == Head(keys)
             rest == ValidateAllKeysMessages(Tail(keys))
         IN IF e.v # <<>> /\ ValidateKeyValue(e.k, e.v).threw = "DlpViolation"
               THEN <<ViolationMessage(e.k, e.v)>> \o rest
               ELSE rest

\* The message of the DlpViolation saveKeys throws.
SaveKeysMessage(keys) ==
    LET RECURSIVE Join(_)
        \* violations.join("; ")
        Join(msgs) ==
            IF msgs = <<>> THEN <<>>
            ELSE IF Len(msgs) = 1 THEN msgs[1]
            ELSE msgs[1] \o <<";", " ">> \o Join(Tail(msgs))
    IN <<"K","e","y"," ","v","a","l","i","d","a","t","i","o","n"," ","f","a","i","l","e","d",":"," ">> \o Join(ValidateAllKeysMessages(keys))

\* ---- the arguments validateKeyValue is called with

ValuePrefixes ==
    {<<>>, <<"s","k","-">>, <<"s","k","-","a","n","t","-">>, <<"A","I","z","a">>}

\* Body lengths on both sides of every limit the checks know.
BodyLengths ==
    {0, KeyMinLen - 1, KeyMinLen, ProviderBodyMin - 1, ProviderBodyMin,
     GoogleBodyMin - 1, GoogleBodyMin, MasterBodyMax, MasterBodyMax + 1,
     KeyMaxLen - 7, KeyMaxLen - 6, KeyMaxLen, KeyMaxLen + 1}

\* Nothing, a forbidden character, a character that is neither safe nor forbidden.
ValueTails == {<<>>, <<"$">>, <<".">>, <<"\n">>}

SampleValues ==
    {p \o Rep("a", n) \o tl : p \in ValuePrefixes, n \in BodyLengths, tl \in ValueTails}
    \cup {<<"r","a","n","g","e">>, NameChars("NEXUS_MASTER_SECRET")}

SampleNames == KnownKeyNames \cup {"CUSTOM_API_KEY", "constructor"}

\* validateKeyValue is called once with the drawn arguments.
ValidateCall ==
    /\ vResult = NotCalled
    /\ vResult' = ValidateKeyValue(vName, vValue)
    /\ vMessage' = IF vResult'.threw = "DlpViolation" THEN ViolationMessage(vName, vValue) ELSE <<>>
    /\ UNCHANGED <<vName, vValue>>
    /\ UNCHANGED <<storeVars, trustVars, initVars, dlpVars>>

(***************************************************************************)
(* Redaction (core/dlp.ts)                                                 *)
(***************************************************************************)

Placeholder == <<"[","R","E","D","A","C","T","E","D","]">>

\* SECRET_PATTERNS, in array order: a literal prefix, then min..max characters of a
\* class (max Unbounded for {20,}); the class of the OpenAI pattern is [A-Za-z0-9].
SecretPatterns ==
    << [prefix |-> <<"s","k","-","a","n","t","-","a","p","i","0","3","-">>, class |-> SafeChars, min |-> ProviderBodyMin, max |-> Unbounded],
       [prefix |-> <<"s","k","-">>, class |-> UpperChars \cup LowerChars \cup DigitChars, min |-> ProviderBodyMin, max |-> Unbounded],
       [prefix |-> <<"A","I","z","a">>, class |-> SafeChars, min |-> GoogleBodyMin, max |-> GoogleBodyMin] >>

\* The length of the match of pattern p that starts at position i of s, 0 if none:
\* the quantifier is greedy, so the match takes every class character up to max.
MatchLen(p, s, i) ==
    LET from == i + Len(p.prefix)
        Run[j \in 1..(Len(s) + 1)] ==
            IF j <= Len(s) /\ s[j] \in p.class THEN 1 + Run[j + 1] ELSE 0
    IN IF from - 1 > Len(s) \/ SubSeq(s, i, from - 1) # p.prefix THEN 0
       ELSE IF Run[from] < p.min THEN 0
       ELSE IF p.max = Unbounded \/ Run[from] <= p.max THEN Len(p.prefix) + Run[from]
       ELSE Len(p.prefix) + p.max

\* pattern.test(s) with lastIndex 0: s has a match of p somewhere.
HasMatch(p, s) == \E i \in 1..Len(s) : MatchLen(p, s, i) > 0

\* A replace that stops after the first match (a pattern without the g flag).
ReplaceFirst(p, s) ==
    IF ~HasMatch(p, s) THEN s
    ELSE LET i == CHOOSE k \in 1..Len(s) :
                      MatchLen(p, s, k) > 0 /\ \A l \in 1..(k - 1) : MatchLen(p, s, l) = 0
         IN SubSeq(s, 1, i - 1) \o Placeholder \o SubSeq(s, i + MatchLen(p, s, i), Len(s))

\* s.replace(p, "[REDACTED]") for a global pattern: the matches are taken left to
\* right, each search resuming where the previous match ended.
ReplaceAll(p, s) ==
    LET From[i \in 1..(Len(s) + 1)] ==
            IF i > Len(s) THEN <<>>
            ELSE IF MatchLen(p, s, i) > 0
                 THEN Placeholder \o From[i + MatchLen(p, s, i)]
                 ELSE <<s[i]>> \o From[i + 1]
    IN From[1]

\* redact: the patterns are applied one after the other, each to the result of the
\* one before.
Redact(text) ==
    LET RECURSIVE Apply(_, _)
        Apply(k, result) ==
            IF k > Len(SecretPatterns) THEN result
            ELSE CHOOSE out \in {Apply(k + 1, r) : r \in {ReplaceAll(SecretPatterns[k], result)}} : TRUE
    IN Apply(1, text)

NotRedacted == <<"(not called)">>

\* ---- the strings redact is called with: up to MaxPieces pieces, each a pattern
\* prefix followed by a run of class characters around the quantifier's limits, a
\* bare prefix, a separator or the placeholder.
MaxPieces == 3

RedactPieces ==
    {SecretPatterns[k].prefix \o Rep("a", SecretPatterns[k].min + d) :
        k \in DOMAIN SecretPatterns, d \in {-1, 0, 1}}
    \cup {SecretPatterns[2].prefix, <<"_">>, <<" ">>, Placeholder}

RECURSIVE RedactInputs(_)
RedactInputs(n) ==
    IF n = 0 THEN {<<>>}
    ELSE RedactInputs(n - 1) \cup {s \o p : s \in RedactInputs(n - 1), p \in RedactPieces}

\* redact(rInput)
RedactCall ==
    /\ rOutput = NotRedacted
    /\ rOutput' = Redact(rInput)
    /\ UNCHANGED rInput
    /\ UNCHANGED <<validateVars, storeVars, trustVars, initVars, auditVars, envVars, poll, portVars, shellVars, maskVars, replVars, cloudInitVars, feedVars, stopVmVars>>

(***************************************************************************)
(* The key set (core/secrets.ts NexusKeys) and its text in .env.keys       *)
(***************************************************************************)

MasterName == "NEXUS_MASTER_SECRET"

\* A property that is undefined, as distinct from the empty string: a text no
\* sequence of characters equals.
Undefined == <<"(undefined)">>

\* JavaScript truthiness of a string-or-undefined value.
Truthy(v) == v # <<>> /\ v # Undefined

\* A key set is the sequence of its entries [k, v] in insertion order (the order of
\* Object.entries), every name at most once.
HasKey(keys, name) == \E i \in DOMAIN keys : keys[i].k = name

\* keys[name]
Lookup(keys, name) ==
    IF HasKey(keys, name)
        THEN keys[CHOOSE i \in DOMAIN keys : keys[i].k = name].v
        ELSE Undefined

\* keys[name] = value
Put(keys, name, value) ==
    IF HasKey(keys, name)
        THEN [i \in DOMAIN keys |-> IF keys[i].k = name THEN [k |-> name, v |-> value] ELSE keys[i]]
        ELSE Append(keys, [k |-> name, v |-> value])

\* Object.entries(keys).filter(([, v]) => v).map(([k, v]) => k=v): the lines written.
Serialize(keys) ==
    LET IsSet(e) == Truthy(e.v) IN SelectSeq(keys, IsSet)

RECURSIVE UpToNewline(_)
UpToNewline(v) ==
    IF v = <<>> \/ Head(v) = "\n" THEN <<>> ELSE <<Head(v)>> \o UpToNewline(Tail(v))

\* content.split("\n"), then for each line with indexOf("=") > 0 the name before the
\* first "=" and the value after it; a later line of the same name wins. What follows a
\* newline inside a value is a line of its own (the sampled values hold no "=").
RECURSIVE ParseInto(_, _)
ParseInto(acc, lines) ==
    IF lines = <<>> THEN acc
    ELSE LET line == Head(lines)
         IN ParseInto(IF line.k = "" THEN acc ELSE Put(acc, line.k, UpToNewline(line.v)),
                      Tail(lines))

ParseKeys(text) == ParseInto(<<>>, text)

\* generateMasterSecret(): 32 random bytes in base64url, 43 characters of [A-Za-z0-9_-].
MasterSecretLen == 43
GeneratedSecrets == {Rep("m", MasterSecretLen), Rep("n", MasterSecretLen)}

\* Values typed at the prompts.
GoodAnthropic == <<"s","k","-","a","n","t","-">> \o Rep("a", ProviderBodyMin)
GoodOpenAi == <<"s","k","-">> \o Rep("b", ProviderBodyMin)

\* A valid Anthropic key of the sk-ant-api03- form.
NewAnthropic == <<"s","k","-","a","n","t","-","a","p","i","0","3","-">> \o Rep("c", ProviderBodyMin)

BadChars == GoodAnthropic \o <<"$">>

\* validateAllKeys that reports nothing.
ValidateNoKeys(keys) == {}

\* validateAllKeys(keys): the violations of the entries with a truthy value; an error
\* of validateKeyValue that is no DlpViolation is dropped.
ValidateAllKeys(keys) ==
    {[k |-> keys[i].k, check |-> ValidateKeyValue(keys[i].k, keys[i].v).check] :
        i \in {j \in DOMAIN keys :
                 /\ Truthy(keys[j].v)
                 /\ ValidateKeyValue(keys[j].k, keys[j].v).threw = "DlpViolation"}}

(***************************************************************************)
(* The integrity seal (core/dlp.ts, section 5)                             *)
(***************************************************************************)

\* HMAC-SHA256 of the bytes under the key: a digest stands for its 32 bytes, and
\* distinct (bytes, key) pairs give distinct digests.
HmacSha256(bytes, key) == [msg |-> bytes, key |-> key]

\* Characters of a SHA-256 digest in hex.
DigestHexLen == 64

\* A hex text built on a digest: the first keep characters of the digest's hex
\* spelling, in lower or upper case, followed by the characters of tail. Characters
\* put where digits of the digest were cut differ from the digits cut.
\* digest("hex"):
HexOf(digest) == [of |-> digest, upper |-> FALSE, keep |-> DigestHexLen, tail |-> <<>>]

HexChars == DigitChars \cup {"a","b","c","d","e","f","A","B","C","D","E","F"}

RECURSIVE LeadingHex(_)
LeadingHex(s) ==
    IF s # <<>> /\ Head(s) \in HexChars THEN 1 + LeadingHex(Tail(s)) ELSE 0

\* readFileSync(HMAC_PATH, "utf-8").trim()
TrimHex(t) == [t EXCEPT !.tail = IF t.keep = 0 THEN Trim(@) ELSE TrimEnd(@)]

\* Buffer.from(text, "hex"): decodes two characters per byte, either case, and stops
\* at the first pair that is not two hex digits (or at a last single digit). n bytes
\* are the digest's own leading bytes, more bytes come from what follows them.
BufferFromHex(t) ==
    [of |-> t.of, n |-> t.keep \div 2,
     more |-> ((t.keep + LeadingHex(t.tail)) \div 2) - (t.keep \div 2)]

ByteLength(b) == b.n + b.more

\* crypto.timingSafeEqual(a, b): throws RangeError when the byte lengths differ.
TimingSafeEqual(a, b) ==
    IF ByteLength(a) # ByteLength(b) THEN "throws"
    ELSE IF a = b THEN "true" ELSE "false"

\* computeFileHmac(filePath, secret): readFileSync throws on a missing file,
\* createHmac throws a TypeError on an undefined key.
ComputeFileHmac(kf, secret) ==
    IF ~kf.exists THEN [threw |-> "ENOENT", hex |-> None]
    ELSE IF secret = Undefined THEN [threw |-> "TypeError", hex |-> None]
    ELSE [threw |-> None, hex |-> HexOf(HmacSha256(kf.text, secret))]

\* The body of the try block of verifyKeysFile.
VerifyBody(kf, hf, secret) ==
    LET stored == TrimHex(hf.text[1])
        computed == ComputeFileHmac(kf, secret)
    IN IF computed.threw # None THEN "throws"
       ELSE TimingSafeEqual(BufferFromHex(stored), BufferFromHex(computed.hex))

\* A try block whose error escapes.
NoCatch(r) == r

\* catch { return false }
Catch(r) == IF r = "throws" THEN "false" ELSE r

\* verifyKeysFile(keysPath, masterSecret)
VerifyKeysFile(kf, hf, secret) ==
    IF ~kf.exists /\ ~hf.exists THEN "true"
    ELSE IF kf.exists /\ ~hf.exists THEN "false"
    ELSE Catch(VerifyBody(kf, hf, secret))

NoSeal == [exists |-> FALSE, text |-> <<>>, key |-> <<>>]
NoVerify == [called |-> FALSE, key |-> <<>>, result |-> None]
NoLoad == [called |-> FALSE, result |-> None, audit |-> None]
NoSave == [called |-> FALSE, threw |-> None, untouched |-> FALSE, keys |-> <<>>]

\* The files and the log as an operation finds them.
Store == [dir |-> homeDir, kf |-> keysFile, hf |-> hmacFile, log |-> auditLog, so |-> sealedOf]

\* The decimal digits of n, as a template literal prints a number.
RECURSIVE Decimal(_)
Decimal(n) ==
    LET digit == <<"0","1","2","3","4","5","6","7","8","9">>[(n % 10) + 1]
    IN IF n < 10 THEN <<digit>> ELSE Decimal(n \div 10) \o <<digit>>

\* audit(event, detail): returns at once when the directory is missing, else appends
\* the line "<timestamp> | <event> | <redact(detail)>".
Audit(st, event, detail) ==
    IF st.dir THEN [st EXCEPT !.log = Append(@, [event |-> event, detail |-> Redact(detail)])]
    ELSE st

\* sealKeysFile(keysPath, masterSecret)
SealKeysFile(st, secret) ==
    LET computed == ComputeFileHmac(st.kf, secret)
    IN IF computed.threw # None THEN [threw |-> computed.threw, st |-> st]
       ELSE [threw |-> None,
             st |-> [st EXCEPT !.hf = File(<<computed.hex>>),
                               !.so = [exists |-> TRUE, text |-> st.kf.text, key |-> secret]]]

\* saveKeys(keys)
SaveKeys(st, keys) ==
    IF ValidateAllKeys(keys) # {} THEN [threw |-> "DlpViolation", st |-> st]
    ELSE IF ~st.dir THEN [threw |-> "ENOENT", st |-> st]
    ELSE LET sealed == SealKeysFile([st EXCEPT !.kf = File(Serialize(keys))],
                                    Lookup(keys, MasterName))
         IN IF sealed.threw # None THEN sealed
            ELSE [threw |-> None,
                  st |-> Audit(sealed.st, "keys_saved",
                               Decimal(Cardinality({i \in DOMAIN keys : Truthy(keys[i].v)}))
                                   \o <<" ","k","e","y","s"," ","s","a","v","e","d">>)]

\* loadKeys()
LoadKeys(st) ==
    IF ~st.kf.exists THEN [result |-> "null", keys |-> <<>>, audit |-> None, st |-> st]
    ELSE LET keys == ParseKeys(st.kf.text)
             secret == Lookup(keys, MasterName)
         IN IF Truthy(secret) /\ VerifyKeysFile(st.kf, st.hf, secret) # "true"
               THEN [result |-> "DlpViolation", keys |-> <<>>, audit |-> "keys_tampered",
                     st |-> Audit(st, "keys_tampered", <<"H","M","A","C"," ","m","i","s","m","a","t","c","h"," ","o","n"," ",".","e","n","v",".","k","e","y","s">>)]
               ELSE [result |-> "keys", keys |-> keys, audit |-> "keys_loaded",
                     st |-> Audit(st, "keys_loaded", Decimal(Len(keys)) \o <<" ","k","e","y","s"," ","l","o","a","d","e","d">>)]

(***************************************************************************)
(* Operations on the store                                                 *)
(***************************************************************************)

\* The files and the log become those of st.
SetStore(st) ==
    /\ homeDir' = st.dir
    /\ keysFile' = st.kf
    /\ hmacFile' = st.hf
    /\ auditLog' = st.log
    /\ sealedOf' = st.so

\* A load is remembered as long as the two files stay as it found them.
LoadSeen(ld, after) ==
    IF after.kf = ld.st.kf /\ after.hf = ld.st.hf
        THEN [called |-> TRUE, result |-> ld.result, audit |-> ld.audit]
        ELSE NoLoad

\* What a saveKeys call did, before being the store it found and sv its outcome.
SaveSeen(before, sv, keys) ==
    [called |-> TRUE, threw |-> sv.threw,
     untouched |-> (sv.st.kf = before.kf /\ sv.st.hf = before.hf /\ sv.st.log = before.log),
     keys |-> keys]

WriterAfter(sv, before) == IF sv.st.kf # before.kf THEN "saveKeys" ELSE writtenBy

\* ---- the prompts of init (ui/prompts.ts promptInitConfig)

\* validate of the Anthropic prompt: the value is taken once validate returns true.
AnthropicPromptAccepts(val) ==
    /\ val # <<>>
    /\ LET prefix == <<"s","k","-","a","n","t","-">>
       IN Len(val) >= Len(prefix) /\ SubSeq(val, 1, Len(prefix)) = prefix
    /\ ValidateKeyValue("ANTHROPIC_API_KEY", val).threw # "DlpViolation"

\* validate of the two optional prompts
OptionalPromptAccepts(name, val) ==
    val = <<>> \/ ValidateKeyValue(name, val).threw # "DlpViolation"

\* What is typed at the Anthropic prompt and at the two optional prompts.
AnthropicAnswers == {<<>>, GoodAnthropic, GoodOpenAi, BadChars}
OptionalAnswers == {<<>>, BadChars}

\* userConfig.openaiKey || undefined
OrUndefined(val) == IF val = <<>> THEN Undefined ELSE val

\* init, phase 1 "Configuration": prompts, ensureHome, the key set with a fresh master
\* secret, validateAllKeys (process.exit(1) on a violation), saveConfig, saveKeys,
\* ctx.keys = keys.
InitConfigure(anthropicKey, openaiKey, googleKey, secret) ==
    /\ AnthropicPromptAccepts(anthropicKey)
    /\ OptionalPromptAccepts("OPENAI_API_KEY", openaiKey)
    /\ OptionalPromptAccepts("GOOGLE_API_KEY", googleKey)
    /\ LET keys == <<[k |-> "ANTHROPIC_API_KEY", v |-> anthropicKey],
                     [k |-> "OPENAI_API_KEY", v |-> OrUndefined(openaiKey)],
                     [k |-> "GOOGLE_API_KEY", v |-> OrUndefined(googleKey)],
                     [k |-> MasterName, v |-> secret]>>
           home == [Store EXCEPT !.dir = TRUE]
           sv == SaveKeys(home, keys)
       IN IF ValidateAllKeys(keys) # {}
             THEN /\ SetStore(home)
                  /\ ctxKeys' = <<>>
                  /\ UNCHANGED <<writtenBy, lastLoad, lastSave>>
             ELSE /\ SetStore(sv.st)
                  /\ ctxKeys' = IF sv.threw = None THEN keys ELSE <<>>
                  /\ writtenBy' = WriterAfter(sv, home)
                  /\ lastLoad' = IF sv.st.kf = keysFile /\ sv.st.hf = hmacFile THEN lastLoad ELSE NoLoad
                  /\ lastSave' = SaveSeen(home, sv, keys)
    /\ Len(auditLog) < MaxAudit
    /\ lastVerify' = NoVerify
    /\ UNCHANGED staged
    /\ UNCHANGED <<validateVars, trustVars, initVars, dlpVars>>

\* init, phase 7, "Staging API keys": the truthy entries of ctx.keys are written to a
\* temporary file and uploaded to the VM; the run then goes to its end without
\* touching the keys again, and its context goes with it.
InitStageKeys ==
    /\ ctxKeys # <<>>
    /\ staged' = Serialize(ctxKeys)
    /\ ctxKeys' = <<>>
    /\ UNCHANGED <<homeDir, keysFile, hmacFile, auditLog, sealedOf, writtenBy,
                   lastVerify, lastLoad, lastSave>>
    /\ UNCHANGED <<validateVars, trustVars, initVars, dlpVars>>

\* The names "keys set" is given, and String.prototype.toUpperCase on them.
KeysSetNames == {"ANTHROPIC_API_KEY", "openai_api_key", "NEXUS_MASTER_SECRET", "CUSTOM_API_KEY"}

ToUpperCase(name) ==
    CASE name = "openai_api_key" -> "OPENAI_API_KEY"
      [] OTHER -> name

\* keys set <key>: loadKeys (exit 1 on null), the name in upper case against the four
\* valid names (exit 1), the value from the prompt (return when empty),
\* validateKeyValue (exit 1 on a DlpViolation), keys[upper] = value, saveKeys, audit.
KeysSet(keyName, value) ==
    /\ LET ld == LoadKeys(Store)
           upper == ToUpperCase(keyName)
           checked == ValidateKeyValue(upper, value)
           keys == Put(ld.keys, upper, value)
           sv == SaveKeys(ld.st, keys)
           done == IF sv.threw = None
                      THEN Audit(sv.st, "keys_saved", NameChars(upper) \o <<" ","u","p","d","a","t","e","d"," ","v","i","a"," ","C","L","I">>)
                      ELSE sv.st
       IN IF \/ ld.result # "keys"
             \/ upper \notin KnownKeyNames
             \/ value = <<>>
             \/ checked.threw # None
             THEN /\ SetStore(ld.st)
                  /\ lastLoad' = LoadSeen(ld, ld.st)
                  /\ UNCHANGED <<writtenBy, lastSave>>
             ELSE /\ SetStore(done)
                  /\ lastLoad' = LoadSeen(ld, done)
                  /\ writtenBy' = WriterAfter(sv, ld.st)
                  /\ lastSave' = SaveSeen(ld.st, sv, keys)
    /\ Len(auditLog) < MaxAudit
    /\ lastVerify' = NoVerify
    /\ UNCHANGED <<ctxKeys, staged>>
    /\ UNCHANGED <<validateVars, trustVars, initVars, dlpVars>>

\* keys list: loadKeys, then the masked values are printed.
KeysList ==
    /\ LET ld == LoadKeys(Store)
       IN /\ SetStore(ld.st)
          /\ lastLoad' = LoadSeen(ld, ld.st)
    /\ Len(auditLog) < MaxAudit
    /\ lastVerify' = NoVerify
    /\ UNCHANGED <<ctxKeys, staged, writtenBy, lastSave>>
    /\ UNCHANGED <<validateVars, trustVars, initVars, dlpVars>>

\* ---- the files changed by somebody other than the CLI

\* .env.keys is written with the given lines.
WriteKeysFile(text) ==
    /\ homeDir
    /\ keysFile # File(text)
    /\ keysFile' = File(text)
    /\ writtenBy' = "outside"
    /\ lastVerify' = NoVerify
    /\ lastLoad' = NoLoad
    /\ lastSave' = NoSave
    /\ UNCHANGED <<homeDir, hmacFile, auditLog, ctxKeys, staged, sealedOf>>
    /\ UNCHANGED <<validateVars, trustVars, initVars, dlpVars>>

\* .env.keys is deleted.
RemoveKeysFile ==
    /\ keysFile.exists
    /\ keysFile' = NoFile
    /\ writtenBy' = "nobody"
    /\ lastVerify' = NoVerify
    /\ lastLoad' = NoLoad
    /\ lastSave' = NoSave
    /\ UNCHANGED <<homeDir, hmacFile, auditLog, ctxKeys, staged, sealedOf>>
    /\ UNCHANGED <<validateVars, trustVars, initVars, dlpVars>>

\* .keys.hmac is deleted.
RemoveSeal ==
    /\ hmacFile.exists
    /\ hmacFile' = NoFile
    /\ lastVerify' = NoVerify
    /\ lastLoad' = NoLoad
    /\ lastSave' = NoSave
    /\ UNCHANGED <<homeDir, keysFile, auditLog, ctxKeys, staged, sealedOf, writtenBy>>
    /\ UNCHANGED <<validateVars, trustVars, initVars, dlpVars>>

\* Ways of rewriting the text of .keys.hmac: in upper case, without its last
\* character, with a character appended.
SealEdits == {"upper", "cut", "\n", "z", "0"}

EditedSeal(t, form) ==
    CASE form = "upper" -> [t EXCEPT !.upper = TRUE]
      [] form = "cut" -> IF t.tail # <<>>
                            THEN [t EXCEPT !.tail = SubSeq(@, 1, Len(@) - 1)]
                            ELSE [t EXCEPT !.keep = @ - 1]
      [] OTHER -> [t EXCEPT !.tail = Append(@, form)]

\* .keys.hmac is rewritten.
EditSeal(form) ==
    /\ hmacFile.exists
    /\ LET t == EditedSeal(hmacFile.text[1], form)
       IN /\ Len(t.tail) <= MaxTail
          /\ t.keep >= DigestHexLen - MaxTail
          /\ File(<<t>>) # hmacFile
          /\ hmacFile' = File(<<t>>)
    /\ lastVerify' = NoVerify
    /\ lastLoad' = NoLoad
    /\ lastSave' = NoSave
    /\ UNCHANGED <<homeDir, keysFile, auditLog, ctxKeys, staged, sealedOf, writtenBy>>
    /\ UNCHANGED <<validateVars, trustVars, initVars, dlpVars>>

\* The lines .env.keys is given from outside, starting from the lines it holds:
\* the master secret line removed, a value replaced by one with a shell character,
\* another master secret.
Tamperings(text) ==
    LET NotMaster(line) == line.k # MasterName
    IN {SelectSeq(text, NotMaster), Put(text, "ANTHROPIC_API_KEY", BadChars)}
       \cup {Put(text, MasterName, s) : s \in GeneratedSecrets}

\* ---- sealKeysFile and verifyKeysFile called on their own (as the tests do)

SealTexts ==
    {<<[k |-> "ANTHROPIC_API_KEY", v |-> GoodAnthropic], [k |-> MasterName, v |-> s]>> :
        s \in GeneratedSecrets}
    \cup {<<[k |-> "ANTHROPIC_API_KEY", v |-> BadChars]>>}

SealCall(secret) ==
    /\ LET sealed == SealKeysFile(Store, secret)
       IN SetStore(sealed.st)
    /\ lastVerify' = NoVerify
    /\ lastLoad' = NoLoad
    /\ lastSave' = NoSave
    /\ UNCHANGED <<ctxKeys, staged, writtenBy>>
    /\ UNCHANGED <<validateVars, trustVars, initVars, dlpVars>>

VerifyCall(secret) ==
    /\ lastVerify' = [called |-> TRUE, key |-> secret,
                      result |-> VerifyKeysFile(keysFile, hmacFile, secret)]
    /\ UNCHANGED <<homeDir, keysFile, hmacFile, auditLog, ctxKeys, staged, sealedOf,
                   writtenBy, lastLoad, lastSave>>
    /\ UNCHANGED <<validateVars, trustVars, initVars, dlpVars>>

(***************************************************************************)
(* SSH trust layer                                                         *)
(***************************************************************************)

\* Host keys the endpoint (or somebody answering in its place) may present.
HostKeys == {"hostkeyA", "hostkeyB"}

\* crypto.createHash("sha256").update(key).digest("base64"): one token of text that
\* stands for the 44 base64 characters; distinct keys give distinct digests.
Sha256Base64(key) == <<"sha256:" \o key>>

\* The callers of a NodeSSH connect, by how they treat a failed connect.
NodeSshOps == {"waitForSsh", "sshExec", "sshUploadFile", "checkHealth", "eventPoll"}

\* The sessions that run the system ssh client on the "nexus-vm" host alias.
SystemSshOps == {"openInteractiveSsh", "logsFollow"}

InFlight == BagToSet(conn)

\* The event loop carries a bounded number of pending connects.
CanBegin == BagCardinality(conn) < MaxInFlight

Begun(a) == conn (+) SetToBag({a})

Ended(a) == conn (-) SetToBag({a})

\* getHostVerifier(): looks at the pin file when the connect options are built and
\* returns one of two closures.
GetHostVerifier ==
    IF ~pinFile.exists
        THEN [mode |-> "pin", pinned |-> <<>>]
        ELSE [mode |-> "check", pinned |-> Trim(pinFile.text)]

\* A verifier that accepts whatever it is shown.
VerifierAcceptsAnyway(v, key) == TRUE

\* The closure returned while the pin file was absent: writes the pin and accepts.
\* The closure returned while it was present: compares with the value read then.
VerifierAccepts(v, key) ==
    IF v.mode = "pin" THEN TRUE ELSE Sha256Base64(key) = v.pinned

VerifierPinWrite(v, key) ==
    IF v.mode = "pin" THEN File(Sha256Base64(key)) ELSE pinFile

\* What the caller of a connect that threw does with the error.
ReportOfFailure(op) ==
    CASE op = "waitForSsh"    -> "retry"       \* catch { sleep 5 s }, loop
      [] op = "checkHealth"   -> "unhealthy"   \* catch { return status } with sshReady false
      [] op = "eventPoll"     -> "silent"      \* catch { silent retry }
      [] OTHER                -> "thrown"      \* sshExec / sshUploadFile rethrow to the command

NoAttempt == [op |-> None, key |-> None, verdict |-> None, report |-> None, viaPin |-> FALSE]

\* The commands that reach the VM run on an installation (they leave at once when
\* there is no configuration); init creates the directory before anything else.
\* sshExec / sshUploadFile (directly, from checkHealth or from the EventStream poll):
\* new NodeSSH(), connect options built with hostVerifier: getHostVerifier().
BeginConnect(op) ==
    /\ homeDir
    /\ op \in NodeSshOps \ {"waitForSsh"}
    /\ CanBegin
    /\ conn' = Begun([op |-> op, v |-> GetHostVerifier])
    /\ overlapped' = (overlapped \/ InFlight # {})
    /\ UNCHANGED <<pinFile, knownHosts, wfs, wfsMismatch, last, firstFp>>
    /\ UNCHANGED <<validateVars, storeVars, initVars, dlpVars>>

\* waitForSsh is called: the loop is entered.
WaitForSshStart ==
    /\ homeDir
    /\ wfs = "idle"
    /\ wfs' = "loop"
    /\ wfsMismatch' = FALSE
    /\ UNCHANGED <<pinFile, knownHosts, conn, last, firstFp, overlapped>>
    /\ UNCHANGED <<validateVars, storeVars, initVars, dlpVars>>

\* One iteration of the waitForSsh loop: Date.now() - start < timeoutMs, connect.
WaitForSshAttempt ==
    /\ wfs = "loop"
    /\ CanBegin
    /\ conn' = Begun([op |-> "waitForSsh", v |-> GetHostVerifier])
    /\ wfs' = "connecting"
    /\ overlapped' = (overlapped \/ InFlight # {})
    /\ UNCHANGED <<pinFile, knownHosts, wfsMismatch, last, firstFp>>
    /\ UNCHANGED <<validateVars, storeVars, initVars, dlpVars>>

\* The handshake reaches the host key: ssh2 calls the attempt's hostVerifier with it.
HostVerifierRuns(a, key) ==
    /\ a \in InFlight
    /\ LET ok == VerifierAccepts(a.v, key)
       IN /\ pinFile' = VerifierPinWrite(a.v, key)
          /\ last' = [op |-> a.op, key |-> key,
                      verdict |-> IF ~ok THEN "rejected"
                                  ELSE IF a.v.mode = "pin" THEN "pinned" ELSE "accepted",
                      report |-> IF ok THEN "connected" ELSE ReportOfFailure(a.op),
                      viaPin |-> TRUE]
          /\ firstFp' = IF firstFp = <<>> THEN Sha256Base64(key) ELSE firstFp
          /\ IF a.op = "waitForSsh"
                THEN /\ wfs' = IF ok THEN "true" ELSE "sleeping"
                     /\ wfsMismatch' = (wfsMismatch \/ ~ok)
                ELSE UNCHANGED <<wfs, wfsMismatch>>
    /\ conn' = Ended(a)
    /\ UNCHANGED <<knownHosts, overlapped>>
    /\ UNCHANGED <<validateVars, storeVars, initVars, dlpVars>>

\* The handshake reaches the host key, the attempt's hostVerifier accepts it, and
\* the connect then fails all the same (authentication rejected, readyTimeout,
\* connection dropped): connect() throws to the caller of the attempt.
ConnectFailsAfterVerify(a, key) ==
    /\ a \in InFlight
    /\ VerifierAccepts(a.v, key)
    /\ pinFile' = VerifierPinWrite(a.v, key)
    /\ last' = [op |-> a.op, key |-> key,
                verdict |-> IF a.v.mode = "pin" THEN "pinned" ELSE "accepted",
                report |-> ReportOfFailure(a.op),
                viaPin |-> TRUE]
    /\ firstFp' = IF firstFp = <<>> THEN Sha256Base64(key) ELSE firstFp
    /\ IF a.op = "waitForSsh"
          THEN wfs' = "sleeping" /\ UNCHANGED wfsMismatch
          ELSE UNCHANGED <<wfs, wfsMismatch>>
    /\ conn' = Ended(a)
    /\ UNCHANGED <<knownHosts, overlapped>>
    /\ UNCHANGED <<validateVars, storeVars, initVars, dlpVars>>

\* The connect fails before any host key is seen (refused, readyTimeout).
ConnectFails(a) ==
    /\ a \in InFlight
    /\ last' = [op |-> a.op, key |-> None, verdict |-> "unreachable",
                report |-> ReportOfFailure(a.op), viaPin |-> FALSE]
    /\ IF a.op = "waitForSsh"
          THEN wfs' = "sleeping" /\ UNCHANGED wfsMismatch
          ELSE UNCHANGED <<wfs, wfsMismatch>>
    /\ conn' = Ended(a)
    /\ UNCHANGED <<pinFile, knownHosts, firstFp, overlapped>>
    /\ UNCHANGED <<validateVars, storeVars, initVars, dlpVars>>

\* waitForSsh: the 5 s sleep after a failed connect ends; the loop condition is
\* evaluated and either holds (next iteration) or not (return false).
WaitForSshWake ==
    /\ wfs = "sleeping"
    /\ wfs' \in {"loop", "false"}
    /\ UNCHANGED <<pinFile, knownHosts, conn, wfsMismatch, last, firstFp, overlapped>>
    /\ UNCHANGED <<validateVars, storeVars, initVars, dlpVars>>

\* waitForSsh has returned; its caller goes on.
WaitForSshReturn ==
    /\ wfs \in {"true", "false"}
    /\ wfs' = "idle"
    /\ UNCHANGED <<pinFile, knownHosts, conn, wfsMismatch, last, firstFp, overlapped>>
    /\ UNCHANGED <<validateVars, storeVars, initVars, dlpVars>>

\* openInteractiveSsh / logs --follow: execa("ssh", ["nexus-vm", ...]). The host alias
\* written by addSshConfig sets StrictHostKeyChecking accept-new and
\* UserKnownHostsFile known_hosts_nexus_vm: the system ssh keeps its own record.
SystemSsh(op, key) ==
    /\ homeDir
    /\ op \in SystemSshOps
    /\ LET ok == knownHosts \in {None, key}
       IN /\ knownHosts' = IF knownHosts = None THEN key ELSE knownHosts
          /\ last' = [op |-> op, key |-> key,
                      verdict |-> IF ok THEN "accepted" ELSE "rejected",
                      report |-> IF ok THEN "connected" ELSE "thrown",
                      viaPin |-> FALSE]
    /\ UNCHANGED <<pinFile, conn, wfs, wfsMismatch, firstFp, overlapped>>
    /\ UNCHANGED <<validateVars, storeVars, initVars, dlpVars>>

\* stopVm(): no valid pid file, return; else SIGTERM to the QEMU pid and the pid
\* file is removed.
StopVm(q, pid) ==
    IF ~pid THEN [qemu |-> q, vmPid |-> pid]
    ELSE [qemu |-> IF q = "running" THEN "terminated" ELSE q, vmPid |-> FALSE]

\* What the operator may type at the prompt of destroy.
ConfirmInputs == {"destroy", "Destroy", " destroy", "yes", ""}

\* isVmRunning(): the pid file holds a pid and process.kill(pid, 0) does not throw.
IsVmRunning(q, pid) == pid /\ q = "running"

\* A destroy that removes the data without looking for a running VM.
DestroySkippingVm(force, confirm) ==
    /\ InFlight = {}
    /\ wfs = "idle"
    /\ iStatus # "running"
    /\ IF ~force /\ confirm # "destroy"
          THEN UNCHANGED <<trustVars, storeVars, initVars, auditVars, sshConfig>>
          ELSE /\ qemu' = qemu
               /\ vmPid' = FALSE
               /\ configPorts' = None
               /\ sshConfig' = None
               /\ pinFile' = NoFile
               /\ knownHosts' = None
               /\ last' = NoAttempt
               /\ firstFp' = <<>>
               /\ overlapped' = FALSE
               /\ wfsMismatch' = FALSE
               /\ homeDir' = FALSE
               /\ keysFile' = NoFile
               /\ hmacFile' = NoFile
               /\ auditLog' = <<>>
               /\ ctxKeys' = <<>>
               /\ staged' = <<>>
               /\ sealedOf' = NoSeal
               /\ writtenBy' = "nobody"
               /\ lastVerify' = NoVerify
               /\ lastLoad' = NoLoad
               /\ lastSave' = NoSave
               /\ aLog' = <<>>
               /\ aBackup' = NoFile
               /\ aLast' = NoAudit
               /\ UNCHANGED <<conn, wfs>>
               /\ UNCHANGED <<iStatus, iPhase, iStep, started, returned, thrownIn, ctx, completionShown>>
    /\ UNCHANGED <<validateVars, redactVars, envVars, poll, host, pr, shellVars, maskVars, replVars, cloudInitVars, feedVars, stopVmVars>>

\* destroy, in an invocation of its own while no other command runs: without --force the operator must type
\* "destroy", else "Aborted" and return. Then, with a configuration and a running VM,
\* stopTunnel (in a try) and stopVm(); the "Host nexus-vm" entry leaves the ssh config;
\* fs.rmSync(NEXUS_HOME, {recursive, force}): the configuration, the pid file, the pin,
\* the known-hosts file, the keys, the seal and the audit log go with the directory.
Destroy(force, confirm) ==
    /\ InFlight = {}
    /\ wfs = "idle"
    /\ iStatus # "running"
    /\ IF ~force /\ confirm # "destroy"
          THEN UNCHANGED <<trustVars, storeVars, initVars, auditVars, sshConfig>>
          ELSE /\ qemu' = IF configPorts # None /\ IsVmRunning(qemu, vmPid)
                             THEN StopVm(qemu, vmPid).qemu ELSE qemu
               /\ vmPid' = FALSE
               /\ configPorts' = None
               /\ sshConfig' = None
               /\ pinFile' = NoFile
               /\ knownHosts' = None
               /\ last' = NoAttempt
               /\ firstFp' = <<>>
               /\ overlapped' = FALSE
               /\ wfsMismatch' = FALSE
               /\ homeDir' = FALSE
               /\ keysFile' = NoFile
               /\ hmacFile' = NoFile
               /\ auditLog' = <<>>
               /\ ctxKeys' = <<>>
               /\ staged' = <<>>
               /\ sealedOf' = NoSeal
               /\ writtenBy' = "nobody"
               /\ lastVerify' = NoVerify
               /\ lastLoad' = NoLoad
               /\ lastSave' = NoSave
               /\ aLog' = <<>>
               /\ aBackup' = NoFile
               /\ aLast' = NoAudit
               /\ UNCHANGED <<conn, wfs>>
               /\ UNCHANGED <<iStatus, iPhase, iStep, started, returned, thrownIn, ctx, completionShown>>
    /\ UNCHANGED <<validateVars, redactVars, envVars, poll, host, pr, shellVars, maskVars, replVars, cloudInitVars, feedVars, stopVmVars>>

\* init run where nothing is installed yet (its key handling; the phases that follow
\* are the callers of waitForSsh, sshExec and sshUploadFile above).
InitOnEmptyHome ==
    /\ ~homeDir
    /\ InitConfigure(GoodAnthropic, <<>>, <<>>, Rep("m", MasterSecretLen))

(***************************************************************************)
(* The init pipeline (commands/init.ts)                                    *)
(***************************************************************************)

\* phases.length
TotalPhases == 10

\* The awaited steps of each phase's run, in order.
PhaseSteps(p, c) ==
    CASE p = 1 -> <<"configure">>
      [] p = 2 -> <<"installQemu">>
      [] p = 3 -> <<"generateSshKey">>
      [] p = 4 -> <<"downloadImage">>
      [] p = 5 -> <<"renderCloudInit">>
      [] p = 6 -> <<"resolvePortConflicts", "createDisk", "launchVm", "persistPorts">>
      [] p = 7 -> <<"waitForSsh", "uploadTarball", "stageKeys", "waitForCloudInit", "deliverKeys">>
      [] p = 8 -> <<"waitForServer">>
      [] p = 9 -> IF c.enableTunnel THEN <<"installCloudflared", "startTunnel">>
                                    ELSE <<"tunnelNotEnabled">>
      [] p = 10 -> <<"showCompletion">>

CurrentStep == PhaseSteps(iPhase, ctx)[iStep]

\* Steps that end by throwing when they fail (a readiness wait that returns false
\* makes its phase throw).
Throwable(step) == step \notin {"tunnelNotEnabled", "showCompletion"}

\* Steps that do nothing but return or throw, as far as the runner is concerned.
PlainSteps ==
    {"installQemu", "downloadImage", "renderCloudInit", "createDisk",
     "waitForSsh", "uploadTarball", "stageKeys", "waitForCloudInit", "deliverKeys",
     "waitForServer", "installCloudflared", "tunnelNotEnabled"}

\* A loop that goes on two phases further.
NextPhaseSkipping(p) == p + 2

\* for (let i = 0; ...; i++)
NextPhase(p) == p + 1

\* phase.skip?.(ctx): no phase of the list defines skip.
Skips(p) == FALSE

\* The loop from index p on until a phase is run: showPhase, skip check, continue.
RECURSIVE FirstToRun(_)
FirstToRun(p) ==
    IF p > TotalPhases THEN p
    ELSE IF Skips(p) THEN FirstToRun(NextPhase(p))
    ELSE p

\* const ctx = { vmLaunched: false, tunnelUrl: undefined }; the other fields are
\* set by the phases (resolvedPorts is the local of phase 6 before it is stored).
NewCtx == [vmLaunched |-> FALSE, tunnelUrl |-> None, enableTunnel |-> FALSE, resolvedPorts |-> None]

\* The running step has returned: the phase goes on with its next step, or returns,
\* and then the loop runs the next phase or ends.
Proceed ==
    IF iStep < Len(PhaseSteps(iPhase, ctx))
        THEN /\ iStep' = iStep + 1
             /\ UNCHANGED <<iStatus, iPhase, started, returned>>
        ELSE /\ returned' = returned \cup {iPhase}
             /\ LET n == FirstToRun(NextPhase(iPhase))
                IN IF n > TotalPhases
                      THEN /\ iStatus' = "completed"
                           /\ UNCHANGED <<iPhase, iStep, started>>
                      ELSE /\ iPhase' = n
                           /\ iStep' = 1
                           /\ started' = Append(started, n)
                           /\ UNCHANGED iStatus

Running(step) == iStatus = "running" /\ CurrentStep = step

\* runInit(): the context is created and the loop calls the first phase.
RunInit ==
    /\ iStatus = "idle"
    /\ iStatus' = "running"
    /\ ctx' = NewCtx
    /\ LET n == FirstToRun(1)
       IN /\ iPhase' = n
          /\ iStep' = 1
          /\ started' = <<n>>
    /\ UNCHANGED <<returned, thrownIn, qemu, vmPid, configPorts, completionShown>>
    /\ UNCHANGED <<validateVars, storeVars, trustVars, dlpVars>>

\* Phase 1: the prompts are answered, the configuration (default ports) and the keys
\* are saved.
Configure(tunnel) ==
    /\ Running("configure")
    /\ ctx' = [ctx EXCEPT !.enableTunnel = tunnel]
    /\ configPorts' = "default"
    /\ Proceed
    /\ UNCHANGED <<thrownIn, qemu, vmPid, completionShown>>
    /\ UNCHANGED <<validateVars, storeVars, trustVars, dlpVars>>

\* addSshConfig(port): the entry is written unless the file has one already.
AddSshConfig(entry, port) == IF entry # None THEN entry ELSE port

\* Phase 3: generateSshKey, then addSshConfig(config.sshPort).
SshKeySetup ==
    /\ Running("generateSshKey")
    /\ sshConfig' = AddSshConfig(sshConfig, configPorts)
    /\ Proceed
    /\ UNCHANGED <<thrownIn, ctx, qemu, vmPid, configPorts, completionShown>>
    /\ UNCHANGED <<validateVars, storeVars, trustVars, redactVars, auditVars, envVars, poll, host, pr, shellVars, maskVars, replVars, cloudInitVars, feedVars, stopVmVars>>

\* What the operator answered at the port prompt, if it was put up.
Answered(choice) ==
    [NoResolve EXCEPT !.action = CASE choice = "free" -> None
                                   [] choice = "killFailed" -> "kill"
                                   [] OTHER -> choice]

\* An abort branch that prints "Init aborted." and goes on with the requested ports.
ResolvePortConflictsGoesOn(choice) ==
    /\ Running("resolvePortConflicts")
    /\ pr' = Answered(choice)
    /\ IF choice = "killFailed"
          THEN /\ iStatus' = "exited"
               /\ UNCHANGED <<iPhase, iStep, started, returned, ctx>>
          ELSE /\ ctx' = [ctx EXCEPT !.resolvedPorts = IF choice = "alt" THEN "alternate" ELSE "default"]
               /\ Proceed
    /\ UNCHANGED <<thrownIn, qemu, vmPid, configPorts, completionShown>>
    /\ UNCHANGED <<validateVars, storeVars, trustVars, redactVars, auditVars, envVars, poll, host, sshConfig, shellVars, maskVars, replVars, cloudInitVars, feedVars, stopVmVars>>

\* Phase 6, resolvePortConflicts: the ports are free, or the operator picks, for a
\* busy port, kill (which may fail: process.exit(1)), the alternate port, or abort
\* (process.exit(0)).
ResolvePortConflicts(choice) ==
    /\ Running("resolvePortConflicts")
    /\ pr' = Answered(choice)
    /\ IF choice \in {"abort", "killFailed"}
          THEN /\ iStatus' = "exited"
               /\ UNCHANGED <<iPhase, iStep, started, returned, ctx>>
          ELSE /\ ctx' = [ctx EXCEPT !.resolvedPorts = IF choice = "alt" THEN "alternate" ELSE "default"]
               /\ Proceed
    /\ UNCHANGED <<thrownIn, qemu, vmPid, configPorts, completionShown>>
    /\ UNCHANGED <<validateVars, storeVars, trustVars, redactVars, auditVars, envVars, poll, host, sshConfig, shellVars, maskVars, replVars, cloudInitVars, feedVars, stopVmVars>>

\* Phase 6, launchVm: QEMU is started daemonized and writes its pid file.
LaunchVm ==
    /\ Running("launchVm")
    /\ qemu' = "running"
    /\ vmPid' = TRUE
    /\ Proceed
    /\ UNCHANGED <<thrownIn, ctx, configPorts, completionShown>>
    /\ UNCHANGED <<validateVars, storeVars, trustVars, dlpVars>>

\* Phase 6 after launchVm: the resolved ports are put in the configuration,
\* saveConfig writes it, then ctx.vmLaunched = true.
PersistPorts ==
    /\ Running("persistPorts")
    /\ configPorts' = ctx.resolvedPorts
    /\ ctx' = [ctx EXCEPT !.vmLaunched = TRUE]
    /\ Proceed
    /\ UNCHANGED <<thrownIn, qemu, vmPid, completionShown>>
    /\ UNCHANGED <<validateVars, storeVars, trustVars, dlpVars>>

\* Phase 9, startTunnel: a URL, or null (reported, and the phase returns).
StartTunnel(url) ==
    /\ Running("startTunnel")
    /\ ctx' = [ctx EXCEPT !.tunnelUrl = url]
    /\ Proceed
    /\ UNCHANGED <<thrownIn, qemu, vmPid, configPorts, completionShown>>
    /\ UNCHANGED <<validateVars, storeVars, trustVars, dlpVars>>

\* Phase 10: showCompletion.
ShowCompletion ==
    /\ Running("showCompletion")
    /\ completionShown' = TRUE
    /\ Proceed
    /\ UNCHANGED <<thrownIn, ctx, qemu, vmPid, configPorts>>
    /\ UNCHANGED <<validateVars, storeVars, trustVars, dlpVars>>

\* Any other step returns (a readiness wait returns true).
StepReturns ==
    /\ iStatus = "running"
    /\ CurrentStep \in PlainSteps
    /\ Proceed
    /\ UNCHANGED <<thrownIn, ctx, qemu, vmPid, configPorts, completionShown>>
    /\ UNCHANGED <<validateVars, storeVars, trustVars, dlpVars>>

\* The running step throws: the catch of runInit stops the VM if ctx.vmLaunched,
\* then rethrows.
StepThrows ==
    /\ iStatus = "running"
    /\ Throwable(CurrentStep)
    /\ iStatus' = "failed"
    /\ thrownIn' = iPhase
    /\ LET stopped == IF ctx.vmLaunched THEN StopVm(qemu, vmPid)
                                        ELSE [qemu |-> qemu, vmPid |-> vmPid]
       IN /\ qemu' = stopped.qemu
          /\ vmPid' = stopped.vmPid
    /\ UNCHANGED <<iPhase, iStep, started, returned, ctx, configPorts, completionShown>>
    /\ UNCHANGED <<validateVars, storeVars, trustVars, dlpVars>>

(***************************************************************************)
(* The audit trail (core/dlp.ts, section 6)                                *)
(***************************************************************************)

\* MAX_AUDIT_SIZE
MaxAuditSize == 10 * 1024 * 1024

\* The AuditEvent enumeration.
AuditEvents ==
    {"keys_saved", "keys_loaded", "keys_validated", "keys_tampered", "cloudinit_rendered",
     "cloudinit_iso_created", "cloudinit_plaintext_deleted", "ssh_exec",
     "tunnel_url_captured", "dlp_violation", "env_scrubbed"}

\* Calls the call sites make: the event, the start of the detail, and the bytes of
\* the line that results (a detail can be of any length: the command of an sshExec,
\* the text cloudflared printed).
AuditCalls ==
    { [event |-> "keys_saved", detail |-> <<"3"," ","k","e","y","s"," ","s","a","v","e","d">>, bytes |-> ShortLine],
      [event |-> "ssh_exec", detail |-> <<"e","x","p","o","r","t"," ","K","=">> \o NewAnthropic,
       bytes |-> MaxAuditSize \div 2],
      [event |-> "tunnel_url_captured", detail |-> <<"h","t","t","p","s",":","/","/","a",".","t","r","y","c","l","o","u","d","f","l","a","r","e",".","c","o","m">>,
       bytes |-> MaxAuditSize - ShortLine],
      [event |-> "tunnel_url_rejected", detail |-> <<"I","n","v","a","l","i","d"," ","U","R","L"," ","f","o","r","m","a","t",":"," ","h","t","t","p","s",":","/","/","a",".","t","r","y","c","l","o","u","d","f","l","a","r","e",".","c","o","m"," ","x">>,
       bytes |-> ShortLine] }

\* The file-system call of audit that throws, if it is reached ("chmod": inside its
\* own try).
AuditFaults == {"none", "stat", "unlink", "rename", "append", "chmod"}

\* stat.size of a file holding these lines.
RECURSIVE FileSize(_)
FileSize(lines) == IF lines = <<>> THEN 0 ELSE lines[1].bytes + FileSize(Tail(lines))

\* The line audit appends.
AuditLine(call) == [event |-> call.event, detail |-> Redact(call.detail), bytes |-> call.bytes]

\* An audit that never rotates.
AuditBodyAppending(dir, log, backup, call, fault) ==
    IF ~dir THEN [threw |-> None, log |-> log, backup |-> backup]
    ELSE IF fault \in {"stat", "append"} THEN [threw |-> fault, log |-> log, backup |-> backup]
    ELSE [threw |-> None, log |-> Append(log, AuditLine(call)), backup |-> backup]

\* The body of audit's try block; threw is the call that threw, None if none did.
\* An absent audit.log and an empty one are the same to it (<<>>).
AuditBody(dir, log, backup, call, fault) ==
    LET over == log # <<>> /\ FileSize(log) > MaxAuditSize
        unlinked == IF over /\ backup.exists THEN NoFile ELSE backup
        rotated == [log |-> IF over THEN <<>> ELSE log,
                    backup |-> IF over THEN File(log) ELSE backup]
    IN IF ~dir THEN [threw |-> None, log |-> log, backup |-> backup]
       ELSE IF log # <<>> /\ fault = "stat" THEN [threw |-> fault, log |-> log, backup |-> backup]
       ELSE IF over /\ backup.exists /\ fault = "unlink"
               THEN [threw |-> fault, log |-> log, backup |-> backup]
       ELSE IF over /\ fault = "rename" THEN [threw |-> fault, log |-> log, backup |-> unlinked]
       ELSE IF fault = "append" THEN [threw |-> fault, log |-> rotated.log, backup |-> rotated.backup]
       ELSE [threw |-> None, log |-> Append(rotated.log, AuditLine(call)), backup |-> rotated.backup]

\* An audit without its outer try/catch.
AuditNoCatch(r) == r

\* The outer catch: whatever threw, audit returns.
AuditCatch(r) == [r EXCEPT !.threw = None]

\* ensureHome()
EnsureHome ==
    /\ ~homeDir
    /\ homeDir' = TRUE
    /\ UNCHANGED <<keysFile, hmacFile, auditLog, ctxKeys, staged, sealedOf, writtenBy,
                   lastVerify, lastLoad, lastSave>>
    /\ UNCHANGED <<validateVars, trustVars, initVars, dlpVars>>

\* audit(event, detail)
AuditCall(call, fault) ==
    /\ Len(aLog) <= MaxAuditLines
    /\ LET body == AuditBody(homeDir, aLog, aBackup, call, fault)
           r == AuditCatch(body)
       IN /\ aLog' = r.log
          /\ aBackup' = r.backup
          /\ aLast' = [called |-> TRUE, threw |-> r.threw, failed |-> body.threw]
    /\ UNCHANGED <<validateVars, storeVars, trustVars, initVars, redactVars, envVars, poll, portVars, shellVars, maskVars, replVars, cloudInitVars, feedVars, stopVmVars>>

(***************************************************************************)
(* Environment scrubbing (core/dlp.ts, section 7) and the subprocesses      *)
(***************************************************************************)

\* SCRUB_KEYS
ScrubKeys ==
    {"ANTHROPIC_API_KEY", "OPENAI_API_KEY", "GOOGLE_API_KEY", "NEXUS_MASTER_SECRET",
     "NEXUS_SECRET", "AWS_SECRET_ACCESS_KEY", "AWS_SESSION_TOKEN", "GITHUB_TOKEN",
     "GH_TOKEN", "NPM_TOKEN", "DOCKER_PASSWORD", "CI_JOB_TOKEN"}

\* ---- the ambient environment: a name of the denylist and two that are not, each
\* unset, empty, harmless or holding a secret-shaped value.
EnvNames == {"ANTHROPIC_API_KEY", "PATH", "MY_TOKEN"}

EnvValues == {Undefined, <<>>, <<"/","u","s","r","/","b","i","n">>, <<"B","e","a","r","e","r"," ">> \o GoodOpenAi}

\* What later code assigns to an entry of the returned object.
Changed == <<"c","h","a","n","g","e","d">>

NoClean == [ref |-> None, fresh |-> FALSE, env |-> [n \in EnvNames |-> Undefined]]

NoChild ==
    [site |-> [cmd |-> None, at |-> None, env |-> None], env |-> [n \in EnvNames |-> Undefined]]

\* A scrubEnv that works on process.env itself.
SpreadAlias(obj) == obj

\* { ...process.env }: a new object with the entries of obj.
Spread(obj) == "copy"

\* scrubEnv() on an environment with these entries: the entries of the object it
\* returns.
ScrubEnv(env) ==
    LET \* for (const key of SCRUB_KEYS) delete clean[key]
        withoutKeys == [n \in DOMAIN env |-> IF n \in ScrubKeys THEN Undefined ELSE env[n]]
        \* if (value) for (const pattern of SECRET_PATTERNS) if (pattern.test(value)) delete
        matches(v) == Truthy(v) /\ \E k \in DOMAIN SecretPatterns : HasMatch(SecretPatterns[k], v)
    IN [n \in DOMAIN env |-> IF matches(withoutKeys[n]) THEN Undefined ELSE withoutKeys[n]]

\* The execa calls: the command, where it is made, and the env option it is given.
SpawnSites ==
    { [cmd |-> "qemu --version", at |-> "qemu.ts isQemuInstalled", env |-> "scrubEnv"],
      [cmd |-> "apt-get install", at |-> "qemu.ts installQemu", env |-> "scrubEnv"],
      [cmd |-> "curl", at |-> "qemu.ts downloadImage", env |-> "scrubEnv"],
      [cmd |-> "qemu-img", at |-> "qemu.ts createDisk", env |-> "scrubEnv"],
      [cmd |-> "lsof", at |-> "qemu.ts getPortBlocker", env |-> "scrubEnv"],
      [cmd |-> "qemu", at |-> "qemu.ts launchVm", env |-> "scrubEnv"],
      [cmd |-> "ssh-keygen", at |-> "ssh.ts generateSshKey", env |-> "scrubEnv"],
      [cmd |-> "mkisofs", at |-> "cloudinit.ts createCloudInitIso", env |-> "scrubEnv"],
      [cmd |-> "qemu --version", at |-> "doctor.ts", env |-> "none"],
      [cmd |-> "mkisofs --version", at |-> "doctor.ts", env |-> "none"],
      [cmd |-> "genisoimage --version", at |-> "doctor.ts", env |-> "none"] }

\* scrubEnv()
ScrubEnvCall ==
    /\ clean' = [ref |-> Spread("process.env"), fresh |-> TRUE, env |-> ScrubEnv(procEnv)]
    /\ procEnv' = IF clean'.ref = "process.env" THEN clean'.env ELSE procEnv
    /\ UNCHANGED child
    /\ UNCHANGED <<validateVars, storeVars, trustVars, initVars, redactVars, auditVars, poll, portVars, shellVars, maskVars, replVars, cloudInitVars, feedVars, stopVmVars>>

\* Code that holds the returned object assigns to an entry of it or deletes one.
MutateResult(name, value) ==
    /\ clean.ref # None
    /\ clean' = [clean EXCEPT !.env[name] = value, !.fresh = FALSE]
    /\ procEnv' = IF clean.ref = "process.env" THEN clean'.env ELSE procEnv
    /\ UNCHANGED child
    /\ UNCHANGED <<validateVars, storeVars, trustVars, initVars, redactVars, auditVars, poll, portVars, shellVars, maskVars, replVars, cloudInitVars, feedVars, stopVmVars>>

\* execa(cmd, args, options) at a call site: with env: scrubEnv() the child is given
\* the object of a scrubEnv call made for it; without an env option it inherits
\* process.env.
Spawn(site) ==
    /\ child' = [site |-> site,
                 env |-> IF site.env = "scrubEnv" THEN ScrubEnv(procEnv) ELSE procEnv]
    /\ procEnv' = IF site.env = "scrubEnv" /\ Spread("process.env") = "process.env"
                     THEN ScrubEnv(procEnv) ELSE procEnv
    /\ UNCHANGED clean
    /\ UNCHANGED <<validateVars, storeVars, trustVars, initVars, redactVars, auditVars, poll, portVars, shellVars, maskVars, replVars, cloudInitVars, feedVars, stopVmVars>>

(***************************************************************************)
(* The readiness waits (core/ssh.ts, core/health.ts, core/tunnel.ts)       *)
(***************************************************************************)

WaitFunctions == {"waitForSsh", "waitForCloudInit", "waitForServer", "startTunnel"}

\* The time startTunnel waits for the URL.
TunnelWaitMs == 60000

\* ---- the timeouts the callers pass, and the time a probe takes.
CallerTimeouts == {0, 7000, 25000}

ProbeTimes == {0, 1000}

\* The sleep between two probes.
PollInterval(fn) ==
    CASE fn = "waitForSsh" -> 5000
      [] fn = "waitForServer" -> 5000
      [] fn = "waitForCloudInit" -> 20000
      [] fn = "startTunnel" -> 3000

\* How a probe can end: the connection or command succeeds and shows readiness, the
\* command reports failure, the call throws; the grep of startTunnel can also print
\* a line with https:// in it that is not a trycloudflare URL.
ProbeOutcomes(fn) ==
    CASE fn = "waitForSsh" -> {"ready", "throws"}
      [] fn = "startTunnel" -> {"ready", "fails", "throws", "other text"}
      [] OTHER -> {"ready", "fails", "throws"}

\* The wait is called.
WaitStart(fn, timeoutMs) ==
    /\ poll.pc = "idle"
    /\ poll' = [fn |-> fn, timeoutMs |-> IF fn = "startTunnel" THEN TunnelWaitMs ELSE timeoutMs,
                elapsed |-> 0, calls |-> 0, pc |-> "loop", probe |-> None, result |-> None]
    /\ UNCHANGED <<validateVars, storeVars, trustVars, initVars, redactVars, auditVars, envVars, portVars, shellVars, maskVars, replVars, cloudInitVars, feedVars, stopVmVars>>

\* One turn of the while loop: the test of the elapsed time, then the probe inside
\* the try, then either a return or the sleep (with, in waitForServer and
\* waitForCloudInit, the progress line, whose own sshExec is in a try of its own).
Poll(outcome, took) ==
    /\ poll.pc = "loop"
    /\ outcome \in ProbeOutcomes(poll.fn)
    /\ poll' =
          IF ~(poll.elapsed < poll.timeoutMs)
             THEN [poll EXCEPT !.pc = "returned",
                               !.result = IF poll.fn = "startTunnel" THEN "null" ELSE "false"]
          ELSE IF outcome = "ready"
             THEN [poll EXCEPT !.pc = "returned", !.probe = outcome, !.elapsed = @ + took,
                               !.calls = @ + 1,
                               !.result = IF poll.fn = "startTunnel" THEN "url" ELSE "true"]
          ELSE IF outcome = "other text"
             THEN [poll EXCEPT !.pc = "returned", !.probe = outcome, !.elapsed = @ + took,
                               !.calls = @ + 1, !.result = "null"]
          ELSE [poll EXCEPT !.probe = outcome, !.calls = @ + 1,
                            !.elapsed = @ + took + PollInterval(poll.fn)]
    /\ UNCHANGED <<validateVars, storeVars, trustVars, initVars, redactVars, auditVars, envVars, portVars, shellVars, maskVars, replVars, cloudInitVars, feedVars, stopVmVars>>

\* The caller takes the result.
WaitDone ==
    /\ poll.pc = "returned"
    /\ poll' = NoPoll
    /\ UNCHANGED <<validateVars, storeVars, trustVars, initVars, redactVars, auditVars, envVars, portVars, shellVars, maskVars, replVars, cloudInitVars, feedVars, stopVmVars>>

(***************************************************************************)
(* Port negotiation (core/qemu.ts resolvePortConflicts)                    *)
(***************************************************************************)

\* Object.entries(ports): the entries in insertion order.
PortKeys == <<"ssh", "http", "https">>

\* The ports resolvePortConflicts is called with.
RequestedPorts == host.req

\* findFreePort(preferred, max = 20)
ScanMax == 20

\* ---- the machines the model starts from.
\* Who holds a requested port: nobody; a process lsof shows that exits on SIGTERM; one
\* lsof shows that only SIGKILL ends; one lsof does not show (or lsof is missing).
Occupants == {"free", "yields", "stubborn", "hidden"}

\* The ports after a requested one: all free, the first one taken, all taken.
Neighbours == {"free", "next busy", "all busy"}

\* The ports asked for: the defaults of init, and HTTP ports 1, ScanMax and
\* ScanMax + 1 above the SSH port.
RequestSets ==
    {DefaultPorts} \cup {[DefaultPorts EXCEPT !.http = DefaultPorts.ssh + d] : d \in {1, ScanMax, ScanMax + 1}}

Hosts == [occ : [{"ssh", "http", "https"} -> Occupants], near : Neighbours,
          listen : {"0.0.0.0", "127.0.0.1"}, req : RequestSets]

PidOf(key) == CASE key = "ssh" -> 501 [] key = "http" -> 502 [] key = "https" -> 503

\* Somebody listens on the port.
Occupied(h, port) ==
    IF \E k \in DOMAIN h.occ : h.req[k] = port
       THEN \E k \in DOMAIN h.occ : h.req[k] = port /\ h.occ[k] # "free"
    ELSE CASE h.near = "free" -> FALSE
           [] h.near = "next busy" -> \E k \in DOMAIN h.occ : port = h.req[k] + 1
           [] h.near = "all busy" -> TRUE

\* tryBind(port, host): listen, then true on "listening" and false on "error". A
\* listener on the loopback address alone does not stop a bind of the wildcard one.
TryBind(h, port, addr) ==
    \/ ~Occupied(h, port)
    \/ addr = "0.0.0.0" /\ h.listen = "127.0.0.1"

\* A probe of the wildcard address alone.
IsPortFreeWildcardOnly(h, port) == TryBind(h, port, "0.0.0.0")

\* isPortFree(port)
IsPortFree(h, port) ==
    IF ~TryBind(h, port, "0.0.0.0") THEN FALSE ELSE TryBind(h, port, "127.0.0.1")

\* getPortBlocker(port): the pid lsof prints, or null (0) when it prints none or fails.
GetPortBlocker(h, key) == IF h.occ[key] \in {"yields", "stubborn"} THEN PidOf(key) ELSE 0

\* findFreePort(preferred).catch(() => null): the first free port of the ScanMax
\* from preferred on, or null (0).
RECURSIVE FindFreePortFrom(_, _, _)
FindFreePortFrom(h, preferred, offset) ==
    IF ~(offset < ScanMax) THEN 0
    ELSE IF IsPortFree(h, preferred + offset) THEN preferred + offset
    ELSE FindFreePortFrom(h, preferred, offset + 1)

\* A scan that looks at one port more.
FindFreePortFurther(h, preferred) ==
    IF FindFreePortFrom(h, preferred, 0) # 0 THEN FindFreePortFrom(h, preferred, 0)
    ELSE IF IsPortFree(h, preferred + ScanMax) THEN preferred + ScanMax ELSE 0

FindFreePort(h, preferred) == FindFreePortFrom(h, preferred, 0)

\* Choices that offer the kill whether or not a blocker was found.
ChoicesAlwaysKill(blocker, altPort) ==
    {"kill"} \cup (IF altPort # 0 THEN {"alt"} ELSE {}) \cup {"abort"}

\* The choices of the select prompt.
Choices(blocker, altPort) ==
    (IF blocker # 0 THEN {"kill"} ELSE {}) \cup (IF altPort # 0 THEN {"alt"} ELSE {}) \cup {"abort"}

CurrentKey == PortKeys[pr.i]

\* The for loop goes to its next entry, or the function returns resolved.
NextEntry(p) ==
    [p EXCEPT !.i = @ + 1, !.pc = IF p.i + 1 > Len(PortKeys) THEN "returned" ELSE "probe",
              !.blocker = 0, !.alt = 0, !.choices = {}]

\* resolvePortConflicts(ports) is called.
ResolveStart ==
    /\ pr.pc = "idle"
    /\ pr' = [NoResolve EXCEPT !.pc = "probe", !.i = 1, !.resolved = RequestedPorts]
    /\ UNCHANGED <<host, sshConfig>>
    /\ UNCHANGED <<validateVars, storeVars, trustVars, initVars, redactVars, auditVars, envVars, poll, shellVars, maskVars, replVars, cloudInitVars, feedVars, stopVmVars>>

\* The top of the loop body: the port is free (continue), or its blocker and an
\* alternate are looked for and the prompt is put up.
ProbePort ==
    /\ pr.pc = "probe"
    /\ LET port == RequestedPorts[CurrentKey]
           free == IsPortFree(host, port)
           seen == [pr EXCEPT !.log = Append(@, [ev |-> "probe", key |-> CurrentKey, port |-> port, free |-> free])]
       IN pr' = IF free THEN NextEntry(seen)
                ELSE LET blocker == GetPortBlocker(host, CurrentKey)
                         altPort == FindFreePort(host, port + 1)
                         scanned == [seen EXCEPT !.log = IF altPort = 0 THEN @
                                        ELSE Append(@, [ev |-> "probe", key |-> CurrentKey, port |-> altPort, free |-> TRUE])]
                     IN [scanned EXCEPT !.pc = "select", !.blocker = blocker, !.alt = altPort,
                                        !.choices = Choices(blocker, altPort)]
    /\ UNCHANGED <<host, sshConfig>>
    /\ UNCHANGED <<validateVars, storeVars, trustVars, initVars, redactVars, auditVars, envVars, poll, shellVars, maskVars, replVars, cloudInitVars, feedVars, stopVmVars>>

\* The operator picks one of the choices offered; alt and abort end the entry here.
Select(action) ==
    /\ pr.pc = "select"
    /\ action \in pr.choices
    /\ LET picked == [pr EXCEPT !.action = action,
                                !.log = Append(@, [ev |-> "select", key |-> CurrentKey, port |-> 0, free |-> FALSE])]
       IN pr' = IF action = "kill" /\ pr.blocker # 0 THEN [picked EXCEPT !.pc = "sigterm"]
                ELSE IF action = "alt" /\ pr.alt # 0
                   THEN NextEntry([picked EXCEPT !.resolved[CurrentKey] = pr.alt])
                ELSE [picked EXCEPT !.pc = "exit 0"]
    /\ UNCHANGED <<host, sshConfig>>
    /\ UNCHANGED <<validateVars, storeVars, trustVars, initVars, redactVars, auditVars, envVars, poll, shellVars, maskVars, replVars, cloudInitVars, feedVars, stopVmVars>>

\* process.kill(pid, signal): it throws (the catch prints and exits with 1), or the
\* signal is sent and the process it ends lets go of the port.
Kill(signal, throws, ends, next) ==
    IF throws
       THEN /\ pr' = [pr EXCEPT !.pc = "exit 1"]
            /\ UNCHANGED <<host, sshConfig>>
       ELSE /\ pr' = [next EXCEPT !.log = Append(pr.log, [ev |-> signal, key |-> CurrentKey, port |-> pr.blocker, free |-> FALSE])]
            /\ host' = IF host.occ[CurrentKey] \in ends THEN [host EXCEPT !.occ[CurrentKey] = "free"] ELSE host
            /\ UNCHANGED sshConfig

\* process.kill(blocker.pid, "SIGTERM"), then the wait of 1000 ms.
SigTerm(throws) ==
    /\ pr.pc = "sigterm"
    /\ Kill("SIGTERM", throws, {"yields"}, [pr EXCEPT !.pc = "reprobe"])
    /\ UNCHANGED <<validateVars, storeVars, trustVars, initVars, redactVars, auditVars, envVars, poll, shellVars, maskVars, replVars, cloudInitVars, feedVars, stopVmVars>>

\* A re-probe after which SIGKILL follows whatever it found.
ReprobeAlwaysKills ==
    /\ pr.pc = "reprobe"
    /\ LET port == RequestedPorts[CurrentKey]
       IN pr' = [pr EXCEPT !.pc = "sigkill",
                           !.log = Append(@, [ev |-> "probe", key |-> CurrentKey, port |-> port, free |-> IsPortFree(host, port)])]
    /\ UNCHANGED <<host, sshConfig>>
    /\ UNCHANGED <<validateVars, storeVars, trustVars, initVars, redactVars, auditVars, envVars, poll, shellVars, maskVars, replVars, cloudInitVars, feedVars, stopVmVars>>

\* if (!(await isPortFree(port))): free, the entry is done; else SIGKILL is next.
Reprobe ==
    /\ pr.pc = "reprobe"
    /\ LET port == RequestedPorts[CurrentKey]
           free == IsPortFree(host, port)
           seen == [pr EXCEPT !.log = Append(@, [ev |-> "probe", key |-> CurrentKey, port |-> port, free |-> free])]
       IN pr' = IF free THEN NextEntry(seen) ELSE [seen EXCEPT !.pc = "sigkill"]
    /\ UNCHANGED <<host, sshConfig>>
    /\ UNCHANGED <<validateVars, storeVars, trustVars, initVars, redactVars, auditVars, envVars, poll, shellVars, maskVars, replVars, cloudInitVars, feedVars, stopVmVars>>

\* process.kill(blocker.pid, "SIGKILL"), the wait of 500 ms, and the entry is done.
SigKill(throws) ==
    /\ pr.pc = "sigkill"
    /\ Kill("SIGKILL", throws, {"yields", "stubborn"}, NextEntry(pr))
    /\ UNCHANGED <<validateVars, storeVars, trustVars, initVars, redactVars, auditVars, envVars, poll, shellVars, maskVars, replVars, cloudInitVars, feedVars, stopVmVars>>

(***************************************************************************)
(* The event poller and the interactive shell (core/event-stream.ts,       *)
(* commands/shell.ts, ui/repl.ts)                                          *)
(***************************************************************************)

\* The sshExec calls of the session that have not returned yet.
Flying == sh.flying["poll"] + sh.flying["message"] + sh.flying["command"]

\* EventStream.start(): active = true; without a configuration, return; else
\* pollInterval = setInterval(...).
Started(e, hasConfig) ==
    IF ~hasConfig THEN [e EXCEPT !.active = TRUE, !.lastCall = "start"]
    ELSE [e EXCEPT !.active = TRUE, !.lastCall = "start", !.made = @ + 1,
                   !.pollInterval = e.made + 1,
                   !.timers = @ \cup {e.made + 1}]

\* EventStream.stop(): active = false; clearInterval(pollInterval) if it is set.
Stopped(e) ==
    IF e.pollInterval # 0
       THEN [e EXCEPT !.active = FALSE, !.lastCall = "stop", !.timers = @ \ {e.pollInterval},
                      !.pollInterval = 0]
       ELSE [e EXCEPT !.active = FALSE, !.lastCall = "stop"]

\* eventStream.start() is called.
EsStart(hasConfig) ==
    /\ ~sh.exited
    /\ es.made < MaxTimers
    /\ es' = Started(es, hasConfig)
    /\ UNCHANGED sh
    /\ UNCHANGED <<validateVars, storeVars, trustVars, initVars, redactVars, auditVars, envVars, poll, portVars, maskVars, replVars, cloudInitVars, feedVars, stopVmVars>>

\* eventStream.stop() is called.
EsStop ==
    /\ ~sh.exited
    /\ es' = Stopped(es)
    /\ UNCHANGED sh
    /\ UNCHANGED <<validateVars, storeVars, trustVars, initVars, redactVars, auditVars, envVars, poll, portVars, maskVars, replVars, cloudInitVars, feedVars, stopVmVars>>

\* An interval timer fires, every 2000 ms: the callback returns if the stream is not
\* active, else it calls sshExec and awaits it.
TimerFires(h) ==
    /\ ~sh.exited
    /\ h \in es.timers
    /\ es.active
    /\ Flying < MaxInFlight
    /\ sh' = [sh EXCEPT !.flying["poll"] = @ + 1]
    /\ UNCHANGED es
    /\ UNCHANGED <<validateVars, storeVars, trustVars, initVars, redactVars, auditVars, envVars, poll, portVars, maskVars, replVars, cloudInitVars, feedVars, stopVmVars>>

\* The "line" handler of the REPL: free text goes to sendMessage, a slash command
\* such as /status, /agents, /cost or /logs to its handler; each calls sshExec and
\* awaits it.
ReplLine(origin) ==
    /\ ~sh.exited
    /\ origin \in {"message", "command"}
    /\ Flying < MaxInFlight
    /\ sh' = [sh EXCEPT !.flying[origin] = @ + 1]
    /\ UNCHANGED es
    /\ UNCHANGED <<validateVars, storeVars, trustVars, initVars, redactVars, auditVars, envVars, poll, portVars, maskVars, replVars, cloudInitVars, feedVars, stopVmVars>>

\* An sshExec call returns or throws to the one that awaits it.
SshExecSettles(origin) ==
    /\ ~sh.exited
    /\ sh.flying[origin] > 0
    /\ sh' = [sh EXCEPT !.flying[origin] = @ - 1]
    /\ UNCHANGED es
    /\ UNCHANGED <<validateVars, storeVars, trustVars, initVars, redactVars, auditVars, envVars, poll, portVars, maskVars, replVars, cloudInitVars, feedVars, stopVmVars>>

\* The /ssh handler up to its await: eventStream.stop(), openInteractiveSsh.
SlashSsh ==
    /\ ~sh.exited
    /\ sh.inSsh < MaxInFlight
    /\ es' = Stopped(es)
    /\ sh' = [sh EXCEPT !.inSsh = @ + 1]
    /\ UNCHANGED <<validateVars, storeVars, trustVars, initVars, redactVars, auditVars, envVars, poll, portVars, maskVars, replVars, cloudInitVars, feedVars, stopVmVars>>

\* The interactive ssh ends and the /ssh handler goes on: eventStream.start().
SlashSshReturns ==
    /\ ~sh.exited
    /\ sh.inSsh > 0
    /\ es.made < MaxTimers
    /\ es' = Started(es, TRUE)
    /\ sh' = [sh EXCEPT !.inSsh = @ - 1]
    /\ UNCHANGED <<validateVars, storeVars, trustVars, initVars, redactVars, auditVars, envVars, poll, portVars, maskVars, replVars, cloudInitVars, feedVars, stopVmVars>>

\* SIGINT: eventStream.stop(), repl.stop(), whose "close" handler exits the process.
Sigint ==
    /\ ~sh.exited
    /\ es' = Stopped(es)
    /\ sh' = [sh EXCEPT !.exited = TRUE]
    /\ UNCHANGED <<validateVars, storeVars, trustVars, initVars, redactVars, auditVars, envVars, poll, portVars, maskVars, replVars, cloudInitVars, feedVars, stopVmVars>>

(***************************************************************************)
(* Masking a key for display (core/secrets.ts, commands/keys.ts)             *)
(***************************************************************************)

\* The characters of the sampled keys, and how often a key repeats them.
KeyAlphabet == <<"s", "k", "-", "a", "n", "t", "0", "3">>

KeyPeriods == {1, 3, Len(KeyAlphabet)}

\* The key of n characters that repeats the first p characters of the alphabet.
SampleKey(n, p) == [i \in 1..n |-> KeyAlphabet[((i - 1) % p) + 1]]

SampleKeys == {SampleKey(n, p) : n \in 0..MaxKeyLen, p \in KeyPeriods}

Stars == <<"*", "*", "*">>

Dots == <<".", ".", ".">>

\* String.prototype.slice(start): a negative start counts from the end; a start
\* of zero, which is what -0 is, is the start of the string.
SliceFrom(s, start) ==
    LET from == IF start < 0
                   THEN (IF Len(s) + start < 0 THEN 0 ELSE Len(s) + start)
                   ELSE (IF start > Len(s) THEN Len(s) ELSE start)
    IN  SubSeq(s, from + 1, Len(s))

\* String.prototype.slice(0, end) for an end that is not negative.
SliceTo(s, end) == SubSeq(s, 1, IF end > Len(s) THEN Len(s) ELSE end)

\* Math.min(4, Math.floor(key.length * 0.1)); the floor of the double product is
\* the integer quotient for every length up to the bound.
Reveal(key) == IF Len(key) \div 10 < 4 THEN Len(key) \div 10 ELSE 4

\* maskKey(key).
MaskKey(key) ==
    IF Len(key) <= 8
       THEN Stars
       ELSE SliceTo(key, Reveal(key)) \o Dots \o SliceFrom(key, 0 - Reveal(key))

\* keys list prints maskKey(value) for a stored value.
MaskKeyCall(key) ==
    /\ mk' = [key |-> key, result |-> MaskKey(key), called |-> TRUE]
    /\ UNCHANGED <<validateVars, storeVars, trustVars, initVars, redactVars, auditVars, envVars, poll, portVars, shellVars, replVars, cloudInitVars, feedVars, stopVmVars>>

\* needle occurs in hay as a run of consecutive characters.
Contains(hay, needle) ==
    \E i \in 0..(Len(hay) - Len(needle)) : SubSeq(hay, i + 1, i + Len(needle)) = needle

(***************************************************************************)
(* The history of the interactive shell (ui/repl.ts)                        *)
(***************************************************************************)

\* MAX_HISTORY
MaxHistory == 1000

\* A history is the entries of earlier sessions, of which only the number matters,
\* followed by the lines of this session.
EmptyHistory == [old |-> 0, lines |-> <<>>]

\* array.slice(-k): the last k entries, all of them if there are fewer.
SliceLast(h, k) ==
    IF h.old + Len(h.lines) <= k THEN h
    ELSE IF Len(h.lines) >= k
            THEN [old |-> 0, lines |-> SubSeq(h.lines, Len(h.lines) - k + 1, Len(h.lines))]
            ELSE [old |-> k - Len(h.lines), lines |-> h.lines]

\* loadHistory(): the lines of the file that are not empty, the last MAX_HISTORY of them.
LoadHistory(f) == IF f.exists THEN SliceLast([old |-> f.old, lines |-> f.lines], MaxHistory) ELSE EmptyHistory

\* A saveHistory that writes the whole array.
SaveHistoryWhole(h) == [exists |-> TRUE, old |-> h.old, lines |-> h.lines]

\* saveHistory(): mkdir, then the last MAX_HISTORY entries of the array are written.
SaveHistory(h) ==
    LET kept == SliceLast(h, MaxHistory)
    IN  [exists |-> TRUE, old |-> kept.old, lines |-> kept.lines]

\* The shell_history files a session may find: none, an empty one, nearly full, full,
\* and one longer than the CLI writes.
HistoryFiles ==
    {NoHistoryFile} \cup
    {[exists |-> TRUE, old |-> n, lines |-> <<>>] : n \in {0, MaxHistory - 1, MaxHistory, MaxHistory + 2}}

\* new Repl(onMessage): the constructor loads the history.
NewRepl(f) ==
    [file |-> f, history |-> LoadHistory(f), entered |-> <<>>, loaded |-> LoadHistory(f).old,
     pc |-> "prompt", how |-> None]

\* What the operator may type at the prompt.
ReplLines ==
    { <<>>, <<" ", " ">>, <<"h", "i">>, <<" ", "h", "i", " ">>, <<"/", "h", "e", "l", "p">>,
      <<"/", "s", "s", "h">>, <<"/", "e", "x", "i", "t">>, <<" ", "/", "Q", "U", "I", "T", " ", "n", "o", "w">> }

UpperSeq == <<"A","B","C","D","E","F","G","H","I","J","K","L","M","N","O","P","Q","R","S","T","U","V","W","X","Y","Z">>

LowerSeq == <<"a","b","c","d","e","f","g","h","i","j","k","l","m","n","o","p","q","r","s","t","u","v","w","x","y","z">>

\* String.prototype.toLowerCase on the letters A to Z.
ToLowerCase(s) ==
    [i \in 1..Len(s) |->
        IF \E j \in 1..Len(UpperSeq) : UpperSeq[j] = s[i]
           THEN LowerSeq[CHOOSE j \in 1..Len(UpperSeq) : UpperSeq[j] = s[i]]
           ELSE s[i]]

\* s.split(/\s+/)[0]: what comes before the first white space.
RECURSIVE FirstWord(_)
FirstWord(s) ==
    IF s = <<>> \/ Head(s) \in Whitespace THEN <<>> ELSE <<Head(s)>> \o FirstWord(Tail(s))

\* trimmed.slice(1).split(/\s+/)[0].toLowerCase() of a line that starts with "/".
CmdName(trimmed) == ToLowerCase(FirstWord(Tail(trimmed)))

\* Repl.stop(): saveHistory(), rl.close(); the "close" handler runs saveHistory()
\* again and process.exit(0).
ReplStop(r, how) ==
    [r EXCEPT !.file = SaveHistory(r.history), !.pc = "exited", !.how = how]

\* The "line" handler up to its first await: a blank line only prompts again; any
\* other line is pushed, trimmed, on the history; /exit and /quit stop the REPL.
ReplLineEntered(line) ==
    /\ rp.pc = "prompt"
    /\ Len(rp.entered) < MaxLines
    /\ LET trimmed == Trim(line)
           pushed == [rp EXCEPT !.history.lines = Append(@, trimmed),
                                !.entered = Append(@, trimmed)]
       IN rp' = IF trimmed = <<>> THEN rp
                ELSE IF Head(trimmed) = "/" /\ CmdName(trimmed) \in {<<"e","x","i","t">>, <<"q","u","i","t">>}
                        THEN ReplStop(pushed, "exit")
                        ELSE pushed
    /\ UNCHANGED <<validateVars, storeVars, trustVars, initVars, redactVars, auditVars, envVars, poll, portVars, shellVars, maskVars, cloudInitVars, feedVars, stopVmVars>>

\* Ctrl-C at the prompt (the "SIGINT" event of readline) or SIGINT to the process
\* (the handler of the shell command): repl.stop().
ReplSigint ==
    /\ rp.pc = "prompt"
    /\ rp' = ReplStop(rp, "sigint")
    /\ UNCHANGED <<validateVars, storeVars, trustVars, initVars, redactVars, auditVars, envVars, poll, portVars, shellVars, maskVars, cloudInitVars, feedVars, stopVmVars>>

\* The input closes (Ctrl-D): the "close" handler runs saveHistory() and process.exit(0).
ReplClose ==
    /\ rp.pc = "prompt"
    /\ rp' = [rp EXCEPT !.file = SaveHistory(rp.history), !.pc = "exited", !.how = "close"]
    /\ UNCHANGED <<validateVars, storeVars, trustVars, initVars, redactVars, auditVars, envVars, poll, portVars, shellVars, maskVars, cloudInitVars, feedVars, stopVmVars>>

(***************************************************************************)
(* Cloud-init generation (core/cloudinit.ts, phase 5 of init)               *)
(***************************************************************************)

\* The keys of the init context that hold a value: the Anthropic key and the master
\* secret always, the other two when the operator gave them.
CloudInitKeySets ==
    {{"ANTHROPIC_API_KEY", "NEXUS_MASTER_SECRET"} \cup more : more \in SUBSET {"OPENAI_API_KEY", "GOOGLE_API_KEY"}}

\* The rendered user-data: a file that holds the values of these keys.
Rendered(keys) == [exists |-> TRUE, keys |-> keys]

\* The finally block of createCloudInitIso: both files are unlinked and the removal
\* is audited.
Finally(c) ==
    [c EXCEPT !.userData = Absent, !.metaData = FALSE,
              !.log = Append(@, "cloudinit_plaintext_deleted")]

\* createCloudInitIso once a tool has written init.iso: chmod, audit, return through
\* the finally block.
IsoCreated(c) ==
    Finally([c EXCEPT !.iso = TRUE, !.log = Append(@, "cloudinit_iso_created"),
                      !.pc = "done", !.result = "iso"])

\* Phase 5 up to the first tool: renderCloudInit checks the public key (DlpViolation),
\* writes user-data.yaml and audits; createCloudInitIso writes meta-data.yaml and
\* starts mkisofs.
CloudInitPhase(pubKeyOk, keys) ==
    /\ ci.pc \in {"idle", "done"}
    /\ ci.runs < MaxRuns
    /\ ci' = IF ~pubKeyOk
                THEN [ci EXCEPT !.pc = "done", !.runs = @ + 1, !.result = "DlpViolation"]
                ELSE [ci EXCEPT !.pc = "mkisofs", !.runs = @ + 1, !.result = None,
                                !.userData = Rendered(keys), !.metaData = TRUE,
                                !.log = Append(@, "cloudinit_rendered")]
    /\ UNCHANGED <<validateVars, storeVars, trustVars, initVars, redactVars, auditVars, envVars, poll, portVars, shellVars, maskVars, replVars, feedVars, stopVmVars>>

\* mkisofs or genisoimage ends. With the ISO written the function returns; when
\* mkisofs failed genisoimage is started; when genisoimage failed the two files are
\* copied to cidata-staging and hdiutil is started.
IsoToolEnds(ok) ==
    /\ ci.pc \in {"mkisofs", "genisoimage"}
    /\ ci' = IF ok THEN IsoCreated(ci)
             ELSE IF ci.pc = "mkisofs" THEN [ci EXCEPT !.pc = "genisoimage"]
             ELSE [ci EXCEPT !.pc = "hdiutil", !.staged = ci.userData]
    /\ UNCHANGED <<validateVars, storeVars, trustVars, initVars, redactVars, auditVars, envVars, poll, portVars, shellVars, maskVars, replVars, feedVars, stopVmVars>>

\* hdiutil ends. With the ISO written cidata-staging is removed and the function
\* returns; else the catch is empty, the Error "Cannot create cloud-init ISO" is
\* thrown, and the finally block runs.
HdiutilEnds(ok) ==
    /\ ci.pc = "hdiutil"
    /\ ci' = IF ok THEN IsoCreated([ci EXCEPT !.staged = Absent])
             ELSE Finally([ci EXCEPT !.pc = "done", !.result = "Error"])
    /\ UNCHANGED <<validateVars, storeVars, trustVars, initVars, redactVars, auditVars, envVars, poll, portVars, shellVars, maskVars, replVars, feedVars, stopVmVars>>

(***************************************************************************)
(* Values that validation admits, in texts that are redacted                *)
(***************************************************************************)

\* The keys of the three providers.
ProviderKeyNames == {"ANTHROPIC_API_KEY", "OPENAI_API_KEY", "GOOGLE_API_KEY"}

\* Key bodies around the limits of the validators and of the patterns: letters only,
\* letters with an underscore, and a "proj-" form with a hyphen.
AdmitBodies ==
    {Rep("a", n) : n \in {ProviderBodyMin - 1, ProviderBodyMin, GoogleBodyMin, GoogleBodyMin + 1}}
    \cup {Rep("a", ProviderBodyMin) \o <<"_">>, <<"p","r","o","j","-">> \o Rep("a", ProviderBodyMin)}

AdmitValues ==
    {p \o b : p \in (ValuePrefixes \ {<<>>}) \cup {SecretPatterns[1].prefix}, b \in AdmitBodies}

\* What stands before and after the value in the text.
Surroundings == {<<>>, <<" ">>, <<"a">>, <<"k","e","y","=">>}

(***************************************************************************)
(* The events of the engine (core/event-stream.ts)                         *)
(***************************************************************************)

\* The blocks the engine serves on /events, oldest first: an event with id 1, a block
\* whose data is not JSON, an event without id (a heartbeat), an event with id 2.
\* id 0 stands for "no id".
Feed == <<[ok |-> TRUE, id |-> 1], [ok |-> FALSE, id |-> 0], [ok |-> TRUE, id |-> 0], [ok |-> TRUE, id |-> 2]>>

\* Where the event with this id is in the feed; before the first block for "0".
PosOf(id) == IF id = 0 THEN 0 ELSE CHOOSE i \in 1..Len(Feed) : Feed[i].ok /\ Feed[i].id = id

\* What curl prints for "Last-Event-ID: cursor" when the engine has published n
\* blocks: the blocks after the one with that id.
Response(cursor, n) == SubSeq(Feed, PosOf(cursor) + 1, n)

\* parseSSEData: the blocks whose data parses, in order; a malformed block is skipped.
ParseSSEData(raw) == SelectSeq(raw, LAMBDA b : b.ok)

\* The loop over the events: if (event.id) this.lastId = event.id.
RECURSIVE LastIdAfter(_, _)
LastIdAfter(lastId, events) ==
    IF events = <<>> THEN lastId
    ELSE LastIdAfter(IF Head(events).id # 0 THEN Head(events).id ELSE lastId, Tail(events))

\* The loop over the events: this.onEvent(event), for each in order.
OnEventCalls(events) == [i \in 1..Len(events) |-> events[i].id]

\* The sequence without its i-th element.
Without(s, i) == SubSeq(s, 1, i - 1) \o SubSeq(s, i + 1, Len(s))

\* eventStream.start() is called, at the start of the shell or when /ssh returns.
StreamStart(hasConfig) ==
    /\ feed.stream.made < MaxTimers
    /\ feed' = [feed EXCEPT !.stream = Started(@, hasConfig)]
    /\ UNCHANGED <<validateVars, storeVars, trustVars, initVars, redactVars, auditVars, envVars, poll, portVars, shellVars, maskVars, replVars, cloudInitVars, stopVmVars>>

\* eventStream.stop() is called, by /ssh or by the SIGINT handler.
StreamStop ==
    /\ feed' = [feed EXCEPT !.stream = Stopped(@)]
    /\ UNCHANGED <<validateVars, storeVars, trustVars, initVars, redactVars, auditVars, envVars, poll, portVars, shellVars, maskVars, replVars, cloudInitVars, stopVmVars>>

\* The engine publishes its next block.
EnginePublishes ==
    /\ feed.published < Len(Feed)
    /\ feed' = [feed EXCEPT !.published = @ + 1]
    /\ UNCHANGED <<validateVars, storeVars, trustVars, initVars, redactVars, auditVars, envVars, poll, portVars, shellVars, maskVars, replVars, cloudInitVars, stopVmVars>>

\* The interval callback up to its await: it returns if the stream is not active,
\* else it builds the curl command with this.lastId and calls sshExec.
IntervalFires(h) ==
    /\ h \in feed.stream.timers
    /\ feed.stream.active
    /\ Len(feed.polls) < MaxPolls
    /\ feed.issued < MaxIssued
    /\ feed' = [feed EXCEPT !.polls = Append(@, [cursor |-> feed.stream.lastId, from |-> feed.published]),
                            !.issued = @ + 1]
    /\ UNCHANGED <<validateVars, storeVars, trustVars, initVars, redactVars, auditVars, envVars, poll, portVars, shellVars, maskVars, replVars, cloudInitVars, stopVmVars>>

\* The interval callback after its await. sshExec threw (the catch is empty), or it
\* returned what curl printed when the engine had n blocks; with code 0 and an
\* output that is not blank the events are parsed and each one moves lastId, if it
\* has an id, and goes to onEvent.
PollSettles(i, n, ok) ==
    /\ i \in DOMAIN feed.polls
    /\ n \in feed.polls[i].from..feed.published
    /\ LET events == IF ok /\ Response(feed.polls[i].cursor, n) # <<>>
                        THEN ParseSSEData(Response(feed.polls[i].cursor, n)) ELSE <<>>
       IN feed' = [feed EXCEPT !.polls = Without(@, i),
                               !.stream.lastId = LastIdAfter(@, events),
                               !.delivered = @ \o OnEventCalls(events)]
    /\ UNCHANGED <<validateVars, storeVars, trustVars, initVars, redactVars, auditVars, envVars, poll, portVars, shellVars, maskVars, replVars, cloudInitVars, stopVmVars>>

(***************************************************************************)
(* Stopping the VM (core/qemu.ts: readValidPid, isQemuPid, stopVm)         *)
(***************************************************************************)

\* What vm/qemu.pid may hold: what QEMU writes, the same with white space around or
\* text after the digits, text before the digits, nothing, and numbers at and beyond
\* both limits.
PidFileTexts ==
    {<<"4","7","1","1","\n">>,
     <<"4","7","1","1">>,
     <<" "," ","4","7","1","1"," ","\n">>,
     <<"4","7","1","1","x">>,
     <<"4","7","1","1",".","9">>,
     <<"x","4","7","1","1">>,
     <<>>,
     <<"\n">>,
     <<"1","\n">>,
     <<"0">>,
     <<"-","4","7","1","1">>,
     <<"+","2">>,
     <<"2","\n">>,
     <<"4","1","9","4","3","0","4","\n">>,
     <<"4","1","9","4","3","0","5","\n">>,
     <<"0","x","1","2","6","7">>}

\* What ps prints as the command name of a process.
QemuComm == <<"q","e","m","u","-","s","y","s","t","e","m","-","a","a","r","c","h","6","4">>

Comms ==
    {NoProcess, QemuComm,
     <<"/","u","s","r","/","l","o","c","a","l","/","b","i","n","/","Q","e","m","u","-","S","y","s","t","e","m","-","x","8","6","_","6","4">>,
     <<"n","o","d","e">>}

Qemu == <<"q","e","m","u">>

DigitSeq == <<"0","1","2","3","4","5","6","7","8","9">>

DigitValue(c) == (CHOOSE i \in 1..Len(DigitSeq) : DigitSeq[i] = c) - 1

\* The digits a string starts with.
RECURSIVE DigitPrefix(_)
DigitPrefix(s) ==
    IF s # <<>> /\ Head(s) \in DigitChars THEN <<Head(s)>> \o DigitPrefix(Tail(s)) ELSE <<>>

\* The number a string of digits writes.
RECURSIVE ValueOf(_)
ValueOf(d) ==
    IF d = <<>> THEN 0 ELSE ValueOf(SubSeq(d, 1, Len(d) - 1)) * 10 + DigitValue(d[Len(d)])

NaN == [nan |-> TRUE, n |-> 0]

\* parseInt(s, 10): white space is skipped, then a sign, then the digits up to the
\* first character that is not one; NaN when there is no digit.
ParseInt(s) ==
    LET t == TrimStart(s)
        signed == t # <<>> /\ Head(t) \in {"+", "-"}
        d == DigitPrefix(IF signed THEN Tail(t) ELSE t)
    IN IF d = <<>> THEN NaN
       ELSE [nan |-> FALSE, n |-> IF signed /\ Head(t) = "-" THEN 0 - ValueOf(d) ELSE ValueOf(d)]

\* readValidPid(): null (0 here) without the file, for NaN, and for a number that is
\* not in 2..4194304.
ReadValidPid(file) ==
    IF ~file.exists THEN 0
    ELSE LET pid == ParseInt(Trim(file.text))
         IN IF pid.nan \/ pid.n <= 1 \/ pid.n > PidMax THEN 0 ELSE pid.n

\* What "ps -p pid -o comm=" finds.
CommOf(table, pid) == IF pid \in DOMAIN table THEN table[pid] ELSE NoProcess

\* A check that takes any live process for QEMU.
IsAnyPid(table, pid) == CommOf(table, pid) # NoProcess

\* isQemuPid(pid): ps fails when no process has the PID, and that is caught; else the
\* trimmed, lower-cased command name includes "qemu".
IsQemuPid(table, pid) ==
    /\ CommOf(table, pid) # NoProcess
    /\ Contains(ToLowerCase(Trim(CommOf(table, pid))), Qemu)

\* launchVm: QEMU runs with -pidfile and -daemonize; it gets a PID no process has and
\* writes it to vm/qemu.pid.
QemuWritesPid(p) ==
    /\ vmProc.table[p] = NoProcess
    /\ vmProc' = [vmProc EXCEPT !.file = File(Decimal(p) \o <<"\n">>), !.table[p] = QemuComm, !.last = NoStop]
    /\ UNCHANGED <<validateVars, storeVars, trustVars, initVars, redactVars, auditVars, envVars, poll, portVars, shellVars, maskVars, replVars, cloudInitVars, feedVars>>

\* stopVm(). Without a valid PID it returns; for a PID that is not QEMU's it unlinks
\* the PID file and returns; else it sends SIGTERM, which throws when the process
\* has gone since the check, and unlinks the PID file.
StopVmCall(gone) ==
    /\ vmProc.calls < MaxStops
    /\ LET pid == ReadValidPid(vmProc.file)
           isQemu == pid # 0 /\ IsQemuPid(vmProc.table, pid)
       IN vmProc' = [vmProc EXCEPT !.file = IF pid = 0 THEN @ ELSE NoFile,
                           !.table = IF isQemu /\ gone THEN [@ EXCEPT ![pid] = NoProcess] ELSE @,
                           !.calls = @ + 1,
                           !.last = [called |-> TRUE, raw |-> vmProc.file, pid |-> pid,
                                     comm |-> CommOf(vmProc.table, pid),
                                     signals |-> IF isQemu /\ ~gone
                                                    THEN {[pid |-> pid, signal |-> "SIGTERM"]} ELSE {}]]
    /\ UNCHANGED <<validateVars, storeVars, trustVars, initVars, redactVars, auditVars, envVars, poll, portVars, shellVars, maskVars, replVars, cloudInitVars, feedVars>>

(***************************************************************************)
(* Specifications                                                          *)
(***************************************************************************)

\* validateKeyValue on each sampled (name, value).
InitValidate ==
    /\ vName \in SampleNames
    /\ vValue \in SampleValues
    /\ vResult = NotCalled
    /\ vMessage = <<>>
    /\ homeDir = FALSE
    /\ keysFile = NoFile
    /\ hmacFile = NoFile
    /\ auditLog = <<>>
    /\ ctxKeys = <<>>
    /\ staged = <<>>
    /\ sealedOf = NoSeal
    /\ writtenBy = "nobody"
    /\ lastVerify = NoVerify
    /\ lastLoad = NoLoad
    /\ lastSave = NoSave
    /\ pinFile = NoFile
    /\ knownHosts = None
    /\ conn = EmptyBag
    /\ wfs = "idle"
    /\ wfsMismatch = FALSE
    /\ last = NoAttempt
    /\ firstFp = <<>>
    /\ overlapped = FALSE
    /\ iStatus = "idle"
    /\ iPhase = 0
    /\ iStep = 0
    /\ started = <<>>
    /\ returned = {}
    /\ thrownIn = 0
    /\ ctx = NewCtx
    /\ qemu = "none"
    /\ vmPid = FALSE
    /\ configPorts = None
    /\ completionShown = FALSE
    /\ rInput = <<>>
    /\ rOutput = NotRedacted
    /\ aLog = <<>>
    /\ aBackup = NoFile
    /\ aLast = NoAudit
    /\ procEnv = [n \in EnvNames |-> Undefined]
    /\ clean = NoClean
    /\ child = NoChild
    /\ poll = NoPoll
    /\ host = NoHost
    /\ pr = NoResolve
    /\ sshConfig = None
    /\ es = NewEventStream
    /\ sh = NoShell
    /\ mk = NoMask
    /\ rp = NoRepl
    /\ ci = NoCloudInit
    /\ feed = NoFeed
    /\ vmProc = NoVm

NextValidate == ValidateCall

SpecValidate == InitValidate /\ [][NextValidate]_vars

\* The seal functions on a directory that holds some key file or none.
InitSeal ==
    /\ vName = None
    /\ vValue = <<>>
    /\ vResult = Returned
    /\ vMessage = <<>>
    /\ homeDir = TRUE
    /\ keysFile \in {NoFile} \cup {File(t) : t \in SealTexts}
    /\ hmacFile = NoFile
    /\ auditLog = <<>>
    /\ ctxKeys = <<>>
    /\ staged = <<>>
    /\ sealedOf = NoSeal
    /\ writtenBy = IF keysFile.exists THEN "outside" ELSE "nobody"
    /\ lastVerify = NoVerify
    /\ lastLoad = NoLoad
    /\ lastSave = NoSave
    /\ pinFile = NoFile
    /\ knownHosts = None
    /\ conn = EmptyBag
    /\ wfs = "idle"
    /\ wfsMismatch = FALSE
    /\ last = NoAttempt
    /\ firstFp = <<>>
    /\ overlapped = FALSE
    /\ iStatus = "idle"
    /\ iPhase = 0
    /\ iStep = 0
    /\ started = <<>>
    /\ returned = {}
    /\ thrownIn = 0
    /\ ctx = NewCtx
    /\ qemu = "none"
    /\ vmPid = FALSE
    /\ configPorts = None
    /\ completionShown = FALSE
    /\ rInput = <<>>
    /\ rOutput = NotRedacted
    /\ aLog = <<>>
    /\ aBackup = NoFile
    /\ aLast = NoAudit
    /\ procEnv = [n \in EnvNames |-> Undefined]
    /\ clean = NoClean
    /\ child = NoChild
    /\ poll = NoPoll
    /\ host = NoHost
    /\ pr = NoResolve
    /\ sshConfig = None
    /\ es = NewEventStream
    /\ sh = NoShell
    /\ mk = NoMask
    /\ rp = NoRepl
    /\ ci = NoCloudInit
    /\ feed = NoFeed
    /\ vmProc = NoVm

NextSeal ==
    \/ \E t \in SealTexts : WriteKeysFile(t)
    \/ RemoveKeysFile
    \/ RemoveSeal
    \/ \E form \in SealEdits : EditSeal(form)
    \/ \E secret \in GeneratedSecrets : SealCall(secret)
    \/ \E secret \in GeneratedSecrets : VerifyCall(secret)

SpecSeal == InitSeal /\ [][NextSeal]_vars

\* The commands that touch the keys, on a machine where nothing is installed yet.
InitStore ==
    /\ vName = None
    /\ vValue = <<>>
    /\ vResult = Returned
    /\ vMessage = <<>>
    /\ homeDir = FALSE
    /\ keysFile = NoFile
    /\ hmacFile = NoFile
    /\ auditLog = <<>>
    /\ ctxKeys = <<>>
    /\ staged = <<>>
    /\ sealedOf = NoSeal
    /\ writtenBy = "nobody"
    /\ lastVerify = NoVerify
    /\ lastLoad = NoLoad
    /\ lastSave = NoSave
    /\ pinFile = NoFile
    /\ knownHosts = None
    /\ conn = EmptyBag
    /\ wfs = "idle"
    /\ wfsMismatch = FALSE
    /\ last = NoAttempt
    /\ firstFp = <<>>
    /\ overlapped = FALSE
    /\ iStatus = "idle"
    /\ iPhase = 0
    /\ iStep = 0
    /\ started = <<>>
    /\ returned = {}
    /\ thrownIn = 0
    /\ ctx = NewCtx
    /\ qemu = "none"
    /\ vmPid = FALSE
    /\ configPorts = None
    /\ completionShown = FALSE
    /\ rInput = <<>>
    /\ rOutput = NotRedacted
    /\ aLog = <<>>
    /\ aBackup = NoFile
    /\ aLast = NoAudit
    /\ procEnv = [n \in EnvNames |-> Undefined]
    /\ clean = NoClean
    /\ child = NoChild
    /\ poll = NoPoll
    /\ host = NoHost
    /\ pr = NoResolve
    /\ sshConfig = None
    /\ es = NewEventStream
    /\ sh = NoShell
    /\ mk = NoMask
    /\ rp = NoRepl
    /\ ci = NoCloudInit
    /\ feed = NoFeed
    /\ vmProc = NoVm

KeysSetValues == {<<>>, GoodOpenAi, BadChars, NewAnthropic}

NextStore ==
    \/ \E a \in AnthropicAnswers, o \in OptionalAnswers, g \in OptionalAnswers, s \in GeneratedSecrets :
          InitConfigure(a, o, g, s)
    \/ InitStageKeys
    \/ \E n \in KeysSetNames, v \in KeysSetValues : KeysSet(n, v)
    \/ KeysList
    \/ \E t \in Tamperings(keysFile.text) : WriteKeysFile(t)
    \/ RemoveKeysFile
    \/ RemoveSeal
    \/ \E force \in BOOLEAN, confirm \in ConfirmInputs : Destroy(force, confirm)

SpecStore == InitStore /\ [][NextStore]_vars

\* The SSH sessions of the commands, from a machine where nothing is installed yet.
InitTrust ==
    /\ vName = None
    /\ vValue = <<>>
    /\ vResult = Returned
    /\ vMessage = <<>>
    /\ homeDir = FALSE
    /\ keysFile = NoFile
    /\ hmacFile = NoFile
    /\ auditLog = <<>>
    /\ ctxKeys = <<>>
    /\ staged = <<>>
    /\ sealedOf = NoSeal
    /\ writtenBy = "nobody"
    /\ lastVerify = NoVerify
    /\ lastLoad = NoLoad
    /\ lastSave = NoSave
    /\ pinFile = NoFile
    /\ knownHosts = None
    /\ conn = EmptyBag
    /\ wfs = "idle"
    /\ wfsMismatch = FALSE
    /\ last = NoAttempt
    /\ firstFp = <<>>
    /\ overlapped = FALSE
    /\ iStatus = "idle"
    /\ iPhase = 0
    /\ iStep = 0
    /\ started = <<>>
    /\ returned = {}
    /\ thrownIn = 0
    /\ ctx = NewCtx
    /\ qemu = "none"
    /\ vmPid = FALSE
    /\ configPorts = None
    /\ completionShown = FALSE
    /\ rInput = <<>>
    /\ rOutput = NotRedacted
    /\ aLog = <<>>
    /\ aBackup = NoFile
    /\ aLast = NoAudit
    /\ procEnv = [n \in EnvNames |-> Undefined]
    /\ clean = NoClean
    /\ child = NoChild
    /\ poll = NoPoll
    /\ host = NoHost
    /\ pr = NoResolve
    /\ sshConfig = None
    /\ es = NewEventStream
    /\ sh = NoShell
    /\ mk = NoMask
    /\ rp = NoRepl
    /\ ci = NoCloudInit
    /\ feed = NoFeed
    /\ vmProc = NoVm

NextTrust ==
    \/ InitOnEmptyHome
    \/ \E op \in NodeSshOps : BeginConnect(op)
    \/ WaitForSshStart
    \/ WaitForSshAttempt
    \/ \E a \in InFlight, key \in HostKeys : HostVerifierRuns(a, key)
    \/ \E a \in InFlight : ConnectFails(a)
    \/ \E a \in InFlight, key \in HostKeys : ConnectFailsAfterVerify(a, key)
    \/ WaitForSshWake
    \/ WaitForSshReturn
    \/ \E op \in SystemSshOps, key \in HostKeys : SystemSsh(op, key)
    \/ \E force \in BOOLEAN, confirm \in ConfirmInputs : Destroy(force, confirm)

SpecTrust == InitTrust /\ [][NextTrust]_vars

\* One run of init.
InitInit ==
    /\ vName = None
    /\ vValue = <<>>
    /\ vResult = Returned
    /\ vMessage = <<>>
    /\ homeDir = FALSE
    /\ keysFile = NoFile
    /\ hmacFile = NoFile
    /\ auditLog = <<>>
    /\ ctxKeys = <<>>
    /\ staged = <<>>
    /\ sealedOf = NoSeal
    /\ writtenBy = "nobody"
    /\ lastVerify = NoVerify
    /\ lastLoad = NoLoad
    /\ lastSave = NoSave
    /\ pinFile = NoFile
    /\ knownHosts = None
    /\ conn = EmptyBag
    /\ wfs = "idle"
    /\ wfsMismatch = FALSE
    /\ last = NoAttempt
    /\ firstFp = <<>>
    /\ overlapped = FALSE
    /\ iStatus = "idle"
    /\ iPhase = 0
    /\ iStep = 0
    /\ started = <<>>
    /\ returned = {}
    /\ thrownIn = 0
    /\ ctx = NewCtx
    /\ qemu = "none"
    /\ vmPid = FALSE
    /\ configPorts = None
    /\ completionShown = FALSE
    /\ rInput = <<>>
    /\ rOutput = NotRedacted
    /\ aLog = <<>>
    /\ aBackup = NoFile
    /\ aLast = NoAudit
    /\ procEnv = [n \in EnvNames |-> Undefined]
    /\ clean = NoClean
    /\ child = NoChild
    /\ poll = NoPoll
    /\ host = NoHost
    /\ pr = NoResolve
    /\ sshConfig = None
    /\ es = NewEventStream
    /\ sh = NoShell
    /\ mk = NoMask
    /\ rp = NoRepl
    /\ ci = NoCloudInit
    /\ feed = NoFeed
    /\ vmProc = NoVm

NextInit ==
    \/ RunInit
    \/ \E tunnel \in BOOLEAN : Configure(tunnel)
    \/ SshKeySetup
    \/ \E choice \in {"free", "kill", "killFailed", "alt", "abort"} : ResolvePortConflicts(choice)
    \/ LaunchVm
    \/ PersistPorts
    \/ \E url \in {None, "https://x.trycloudflare.com"} : StartTunnel(url)
    \/ ShowCompletion
    \/ StepReturns
    \/ StepThrows

SpecInit == InitInit /\ [][NextInit]_vars

\* redact on each sampled string.
InitRedact ==
    /\ vName = None
    /\ vValue = <<>>
    /\ vResult = Returned
    /\ vMessage = <<>>
    /\ homeDir = FALSE
    /\ keysFile = NoFile
    /\ hmacFile = NoFile
    /\ auditLog = <<>>
    /\ ctxKeys = <<>>
    /\ staged = <<>>
    /\ sealedOf = NoSeal
    /\ writtenBy = "nobody"
    /\ lastVerify = NoVerify
    /\ lastLoad = NoLoad
    /\ lastSave = NoSave
    /\ pinFile = NoFile
    /\ knownHosts = None
    /\ conn = EmptyBag
    /\ wfs = "idle"
    /\ wfsMismatch = FALSE
    /\ last = NoAttempt
    /\ firstFp = <<>>
    /\ overlapped = FALSE
    /\ iStatus = "idle"
    /\ iPhase = 0
    /\ iStep = 0
    /\ started = <<>>
    /\ returned = {}
    /\ thrownIn = 0
    /\ ctx = NewCtx
    /\ qemu = "none"
    /\ vmPid = FALSE
    /\ configPorts = None
    /\ completionShown = FALSE
    /\ rInput \in RedactInputs(MaxPieces)
    /\ rOutput = NotRedacted
    /\ aLog = <<>>
    /\ aBackup = NoFile
    /\ aLast = NoAudit
    /\ procEnv = [n \in EnvNames |-> Undefined]
    /\ clean = NoClean
    /\ child = NoChild
    /\ poll = NoPoll
    /\ host = NoHost
    /\ pr = NoResolve
    /\ sshConfig = None
    /\ es = NewEventStream
    /\ sh = NoShell
    /\ mk = NoMask
    /\ rp = NoRepl
    /\ ci = NoCloudInit
    /\ feed = NoFeed
    /\ vmProc = NoVm

NextRedact == RedactCall

SpecRedact == InitRedact /\ [][NextRedact]_vars

\* audit on an installation directory that is made and removed.
InitAudit ==
    /\ vName = None
    /\ vValue = <<>>
    /\ vResult = Returned
    /\ vMessage = <<>>
    /\ homeDir = FALSE
    /\ keysFile = NoFile
    /\ hmacFile = NoFile
    /\ auditLog = <<>>
    /\ ctxKeys = <<>>
    /\ staged = <<>>
    /\ sealedOf = NoSeal
    /\ writtenBy = "nobody"
    /\ lastVerify = NoVerify
    /\ lastLoad = NoLoad
    /\ lastSave = NoSave
    /\ pinFile = NoFile
    /\ knownHosts = None
    /\ conn = EmptyBag
    /\ wfs = "idle"
    /\ wfsMismatch = FALSE
    /\ last = NoAttempt
    /\ firstFp = <<>>
    /\ overlapped = FALSE
    /\ iStatus = "idle"
    /\ iPhase = 0
    /\ iStep = 0
    /\ started = <<>>
    /\ returned = {}
    /\ thrownIn = 0
    /\ ctx = NewCtx
    /\ qemu = "none"
    /\ vmPid = FALSE
    /\ configPorts = None
    /\ completionShown = FALSE
    /\ rInput = <<>>
    /\ rOutput = NotRedacted
    /\ aLog = <<>>
    /\ aBackup = NoFile
    /\ aLast = NoAudit
    /\ procEnv = [n \in EnvNames |-> Undefined]
    /\ clean = NoClean
    /\ child = NoChild
    /\ poll = NoPoll
    /\ host = NoHost
    /\ pr = NoResolve
    /\ sshConfig = None
    /\ es = NewEventStream
    /\ sh = NoShell
    /\ mk = NoMask
    /\ rp = NoRepl
    /\ ci = NoCloudInit
    /\ feed = NoFeed
    /\ vmProc = NoVm

NextAudit ==
    \/ EnsureHome
    \/ \E call \in AuditCalls, fault \in AuditFaults : AuditCall(call, fault)
    \/ \E force \in BOOLEAN, confirm \in ConfirmInputs : Destroy(force, confirm)

SpecAudit == InitAudit /\ [][NextAudit]_vars

\* scrubEnv and the subprocesses under each sampled ambient environment.
InitScrub ==
    /\ vName = None
    /\ vValue = <<>>
    /\ vResult = Returned
    /\ vMessage = <<>>
    /\ homeDir = FALSE
    /\ keysFile = NoFile
    /\ hmacFile = NoFile
    /\ auditLog = <<>>
    /\ ctxKeys = <<>>
    /\ staged = <<>>
    /\ sealedOf = NoSeal
    /\ writtenBy = "nobody"
    /\ lastVerify = NoVerify
    /\ lastLoad = NoLoad
    /\ lastSave = NoSave
    /\ pinFile = NoFile
    /\ knownHosts = None
    /\ conn = EmptyBag
    /\ wfs = "idle"
    /\ wfsMismatch = FALSE
    /\ last = NoAttempt
    /\ firstFp = <<>>
    /\ overlapped = FALSE
    /\ iStatus = "idle"
    /\ iPhase = 0
    /\ iStep = 0
    /\ started = <<>>
    /\ returned = {}
    /\ thrownIn = 0
    /\ ctx = NewCtx
    /\ qemu = "none"
    /\ vmPid = FALSE
    /\ configPorts = None
    /\ completionShown = FALSE
    /\ rInput = <<>>
    /\ rOutput = NotRedacted
    /\ aLog = <<>>
    /\ aBackup = NoFile
    /\ aLast = NoAudit
    /\ procEnv \in [EnvNames -> EnvValues]
    /\ clean = NoClean
    /\ child = NoChild
    /\ poll = NoPoll
    /\ host = NoHost
    /\ pr = NoResolve
    /\ sshConfig = None
    /\ es = NewEventStream
    /\ sh = NoShell
    /\ mk = NoMask
    /\ rp = NoRepl
    /\ ci = NoCloudInit
    /\ feed = NoFeed
    /\ vmProc = NoVm

NextScrub ==
    \/ ScrubEnvCall
    \/ \E n \in EnvNames, v \in {Undefined, Changed} : MutateResult(n, v)
    \/ \E site \in SpawnSites : Spawn(site)

SpecScrub == InitScrub /\ [][NextScrub]_vars

\* The readiness waits, one at a time.
InitWait ==
    /\ vName = None
    /\ vValue = <<>>
    /\ vResult = Returned
    /\ vMessage = <<>>
    /\ homeDir = FALSE
    /\ keysFile = NoFile
    /\ hmacFile = NoFile
    /\ auditLog = <<>>
    /\ ctxKeys = <<>>
    /\ staged = <<>>
    /\ sealedOf = NoSeal
    /\ writtenBy = "nobody"
    /\ lastVerify = NoVerify
    /\ lastLoad = NoLoad
    /\ lastSave = NoSave
    /\ pinFile = NoFile
    /\ knownHosts = None
    /\ conn = EmptyBag
    /\ wfs = "idle"
    /\ wfsMismatch = FALSE
    /\ last = NoAttempt
    /\ firstFp = <<>>
    /\ overlapped = FALSE
    /\ iStatus = "idle"
    /\ iPhase = 0
    /\ iStep = 0
    /\ started = <<>>
    /\ returned = {}
    /\ thrownIn = 0
    /\ ctx = NewCtx
    /\ qemu = "none"
    /\ vmPid = FALSE
    /\ configPorts = None
    /\ completionShown = FALSE
    /\ rInput = <<>>
    /\ rOutput = NotRedacted
    /\ aLog = <<>>
    /\ aBackup = NoFile
    /\ aLast = NoAudit
    /\ procEnv = [n \in EnvNames |-> Undefined]
    /\ clean = NoClean
    /\ child = NoChild
    /\ poll = NoPoll
    /\ host = NoHost
    /\ pr = NoResolve
    /\ sshConfig = None
    /\ es = NewEventStream
    /\ sh = NoShell
    /\ mk = NoMask
    /\ rp = NoRepl
    /\ ci = NoCloudInit
    /\ feed = NoFeed
    /\ vmProc = NoVm

NextWait ==
    \/ \E fn \in WaitFunctions, t \in CallerTimeouts : WaitStart(fn, t)
    \/ \E o \in {"ready", "fails", "throws", "other text"}, took \in ProbeTimes : Poll(o, took)
    \/ WaitDone

SpecWait == InitWait /\ [][NextWait]_vars

\* resolvePortConflicts on each sampled machine.
InitPorts ==
    /\ vName = None
    /\ vValue = <<>>
    /\ vResult = Returned
    /\ vMessage = <<>>
    /\ homeDir = FALSE
    /\ keysFile = NoFile
    /\ hmacFile = NoFile
    /\ auditLog = <<>>
    /\ ctxKeys = <<>>
    /\ staged = <<>>
    /\ sealedOf = NoSeal
    /\ writtenBy = "nobody"
    /\ lastVerify = NoVerify
    /\ lastLoad = NoLoad
    /\ lastSave = NoSave
    /\ pinFile = NoFile
    /\ knownHosts = None
    /\ conn = EmptyBag
    /\ wfs = "idle"
    /\ wfsMismatch = FALSE
    /\ last = NoAttempt
    /\ firstFp = <<>>
    /\ overlapped = FALSE
    /\ iStatus = "idle"
    /\ iPhase = 0
    /\ iStep = 0
    /\ started = <<>>
    /\ returned = {}
    /\ thrownIn = 0
    /\ ctx = NewCtx
    /\ qemu = "none"
    /\ vmPid = FALSE
    /\ configPorts = None
    /\ completionShown = FALSE
    /\ rInput = <<>>
    /\ rOutput = NotRedacted
    /\ aLog = <<>>
    /\ aBackup = NoFile
    /\ aLast = NoAudit
    /\ procEnv = [n \in EnvNames |-> Undefined]
    /\ clean = NoClean
    /\ child = NoChild
    /\ poll = NoPoll
    /\ host \in Hosts
    /\ pr = NoResolve
    /\ sshConfig = None
    /\ es = NewEventStream
    /\ sh = NoShell
    /\ mk = NoMask
    /\ rp = NoRepl
    /\ ci = NoCloudInit
    /\ feed = NoFeed
    /\ vmProc = NoVm

NextPorts ==
    \/ ResolveStart
    \/ ProbePort
    \/ \E action \in {"kill", "alt", "abort"} : Select(action)
    \/ \E throws \in BOOLEAN : SigTerm(throws)
    \/ Reprobe
    \/ \E throws \in BOOLEAN : SigKill(throws)

SpecPorts == InitPorts /\ [][NextPorts]_vars

\* The shell command once the engine answered: the EventStream is made.
InitShell ==
    /\ vName = None
    /\ vValue = <<>>
    /\ vResult = Returned
    /\ vMessage = <<>>
    /\ homeDir = FALSE
    /\ keysFile = NoFile
    /\ hmacFile = NoFile
    /\ auditLog = <<>>
    /\ ctxKeys = <<>>
    /\ staged = <<>>
    /\ sealedOf = NoSeal
    /\ writtenBy = "nobody"
    /\ lastVerify = NoVerify
    /\ lastLoad = NoLoad
    /\ lastSave = NoSave
    /\ pinFile = NoFile
    /\ knownHosts = None
    /\ conn = EmptyBag
    /\ wfs = "idle"
    /\ wfsMismatch = FALSE
    /\ last = NoAttempt
    /\ firstFp = <<>>
    /\ overlapped = FALSE
    /\ iStatus = "idle"
    /\ iPhase = 0
    /\ iStep = 0
    /\ started = <<>>
    /\ returned = {}
    /\ thrownIn = 0
    /\ ctx = NewCtx
    /\ qemu = "none"
    /\ vmPid = FALSE
    /\ configPorts = None
    /\ completionShown = FALSE
    /\ rInput = <<>>
    /\ rOutput = NotRedacted
    /\ aLog = <<>>
    /\ aBackup = NoFile
    /\ aLast = NoAudit
    /\ procEnv = [n \in EnvNames |-> Undefined]
    /\ clean = NoClean
    /\ child = NoChild
    /\ poll = NoPoll
    /\ host = NoHost
    /\ pr = NoResolve
    /\ sshConfig = None
    /\ es = NewEventStream
    /\ sh = NoShell
    /\ mk = NoMask
    /\ rp = NoRepl
    /\ ci = NoCloudInit
    /\ feed = NoFeed
    /\ vmProc = NoVm

NextShell ==
    \/ \E hasConfig \in BOOLEAN : EsStart(hasConfig)
    \/ EsStop
    \/ \E h \in 1..MaxTimers : TimerFires(h)
    \/ \E origin \in {"message", "command"} : ReplLine(origin)
    \/ \E origin \in {"poll", "message", "command"} : SshExecSettles(origin)
    \/ SlashSsh
    \/ SlashSshReturns
    \/ Sigint

SpecShell == InitShell /\ [][NextShell]_vars

\* init, the sshExec calls of the commands, and destroy, from a machine where nothing
\* is installed yet.
InitDestroy ==
    /\ vName = None
    /\ vValue = <<>>
    /\ vResult = Returned
    /\ vMessage = <<>>
    /\ homeDir = FALSE
    /\ keysFile = NoFile
    /\ hmacFile = NoFile
    /\ auditLog = <<>>
    /\ ctxKeys = <<>>
    /\ staged = <<>>
    /\ sealedOf = NoSeal
    /\ writtenBy = "nobody"
    /\ lastVerify = NoVerify
    /\ lastLoad = NoLoad
    /\ lastSave = NoSave
    /\ pinFile = NoFile
    /\ knownHosts = None
    /\ conn = EmptyBag
    /\ wfs = "idle"
    /\ wfsMismatch = FALSE
    /\ last = NoAttempt
    /\ firstFp = <<>>
    /\ overlapped = FALSE
    /\ iStatus = "idle"
    /\ iPhase = 0
    /\ iStep = 0
    /\ started = <<>>
    /\ returned = {}
    /\ thrownIn = 0
    /\ ctx = NewCtx
    /\ qemu = "none"
    /\ vmPid = FALSE
    /\ configPorts = None
    /\ completionShown = FALSE
    /\ rInput = <<>>
    /\ rOutput = NotRedacted
    /\ aLog = <<>>
    /\ aBackup = NoFile
    /\ aLast = NoAudit
    /\ procEnv = [n \in EnvNames |-> Undefined]
    /\ clean = NoClean
    /\ child = NoChild
    /\ poll = NoPoll
    /\ host = NoHost
    /\ pr = NoResolve
    /\ sshConfig = None
    /\ es = NewEventStream
    /\ sh = NoShell
    /\ mk = NoMask
    /\ rp = NoRepl
    /\ ci = NoCloudInit
    /\ feed = NoFeed
    /\ vmProc = NoVm

NextDestroy ==
    \/ InitOnEmptyHome
    \/ RunInit
    \/ \E tunnel \in {FALSE} : Configure(tunnel)
    \/ SshKeySetup
    \/ \E choice \in {"free", "alt"} : ResolvePortConflicts(choice)
    \/ LaunchVm
    \/ PersistPorts
    \/ ShowCompletion
    \/ StepReturns
    \/ \E op \in {"sshExec"} : BeginConnect(op)
    \/ \E a \in InFlight, key \in HostKeys : HostVerifierRuns(a, key)
    \/ \E force \in BOOLEAN, confirm \in ConfirmInputs : Destroy(force, confirm)

SpecDestroy == InitDestroy /\ [][NextDestroy]_vars

\* Before any key is masked.
InitMask ==
    /\ vName = None
    /\ vValue = <<>>
    /\ vResult = Returned
    /\ vMessage = <<>>
    /\ homeDir = FALSE
    /\ keysFile = NoFile
    /\ hmacFile = NoFile
    /\ auditLog = <<>>
    /\ ctxKeys = <<>>
    /\ staged = <<>>
    /\ sealedOf = NoSeal
    /\ writtenBy = "nobody"
    /\ lastVerify = NoVerify
    /\ lastLoad = NoLoad
    /\ lastSave = NoSave
    /\ pinFile = NoFile
    /\ knownHosts = None
    /\ conn = EmptyBag
    /\ wfs = "idle"
    /\ wfsMismatch = FALSE
    /\ last = NoAttempt
    /\ firstFp = <<>>
    /\ overlapped = FALSE
    /\ iStatus = "idle"
    /\ iPhase = 0
    /\ iStep = 0
    /\ started = <<>>
    /\ returned = {}
    /\ thrownIn = 0
    /\ ctx = NewCtx
    /\ qemu = "none"
    /\ vmPid = FALSE
    /\ configPorts = None
    /\ completionShown = FALSE
    /\ rInput = <<>>
    /\ rOutput = NotRedacted
    /\ aLog = <<>>
    /\ aBackup = NoFile
    /\ aLast = NoAudit
    /\ procEnv = [n \in EnvNames |-> Undefined]
    /\ clean = NoClean
    /\ child = NoChild
    /\ poll = NoPoll
    /\ host = NoHost
    /\ pr = NoResolve
    /\ sshConfig = None
    /\ es = NewEventStream
    /\ sh = NoShell
    /\ mk = NoMask
    /\ rp = NoRepl
    /\ ci = NoCloudInit
    /\ feed = NoFeed
    /\ vmProc = NoVm

NextMask ==
    \/ \E key \in SampleKeys : MaskKeyCall(key)

SpecMask == InitMask /\ [][NextMask]_vars

\* The shell at its first prompt, for each history file it may have found.
InitRepl ==
    /\ vName = None
    /\ vValue = <<>>
    /\ vResult = Returned
    /\ vMessage = <<>>
    /\ homeDir = FALSE
    /\ keysFile = NoFile
    /\ hmacFile = NoFile
    /\ auditLog = <<>>
    /\ ctxKeys = <<>>
    /\ staged = <<>>
    /\ sealedOf = NoSeal
    /\ writtenBy = "nobody"
    /\ lastVerify = NoVerify
    /\ lastLoad = NoLoad
    /\ lastSave = NoSave
    /\ pinFile = NoFile
    /\ knownHosts = None
    /\ conn = EmptyBag
    /\ wfs = "idle"
    /\ wfsMismatch = FALSE
    /\ last = NoAttempt
    /\ firstFp = <<>>
    /\ overlapped = FALSE
    /\ iStatus = "idle"
    /\ iPhase = 0
    /\ iStep = 0
    /\ started = <<>>
    /\ returned = {}
    /\ thrownIn = 0
    /\ ctx = NewCtx
    /\ qemu = "none"
    /\ vmPid = FALSE
    /\ configPorts = None
    /\ completionShown = FALSE
    /\ rInput = <<>>
    /\ rOutput = NotRedacted
    /\ aLog = <<>>
    /\ aBackup = NoFile
    /\ aLast = NoAudit
    /\ procEnv = [n \in EnvNames |-> Undefined]
    /\ clean = NoClean
    /\ child = NoChild
    /\ poll = NoPoll
    /\ host = NoHost
    /\ pr = NoResolve
    /\ sshConfig = None
    /\ es = NewEventStream
    /\ sh = NoShell
    /\ mk = NoMask
    /\ rp \in {NewRepl(f) : f \in HistoryFiles}
    /\ ci = NoCloudInit
    /\ feed = NoFeed
    /\ vmProc = NoVm

NextRepl ==
    \/ \E line \in ReplLines : ReplLineEntered(line)
    \/ ReplSigint
    \/ ReplClose

SpecRepl == InitRepl /\ [][NextRepl]_vars

\* An installation on which init reaches its cloud-init phase.
InitCloudInit ==
    /\ vName = None
    /\ vValue = <<>>
    /\ vResult = Returned
    /\ vMessage = <<>>
    /\ homeDir = FALSE
    /\ keysFile = NoFile
    /\ hmacFile = NoFile
    /\ auditLog = <<>>
    /\ ctxKeys = <<>>
    /\ staged = <<>>
    /\ sealedOf = NoSeal
    /\ writtenBy = "nobody"
    /\ lastVerify = NoVerify
    /\ lastLoad = NoLoad
    /\ lastSave = NoSave
    /\ pinFile = NoFile
    /\ knownHosts = None
    /\ conn = EmptyBag
    /\ wfs = "idle"
    /\ wfsMismatch = FALSE
    /\ last = NoAttempt
    /\ firstFp = <<>>
    /\ overlapped = FALSE
    /\ iStatus = "idle"
    /\ iPhase = 0
    /\ iStep = 0
    /\ started = <<>>
    /\ returned = {}
    /\ thrownIn = 0
    /\ ctx = NewCtx
    /\ qemu = "none"
    /\ vmPid = FALSE
    /\ configPorts = None
    /\ completionShown = FALSE
    /\ rInput = <<>>
    /\ rOutput = NotRedacted
    /\ aLog = <<>>
    /\ aBackup = NoFile
    /\ aLast = NoAudit
    /\ procEnv = [n \in EnvNames |-> Undefined]
    /\ clean = NoClean
    /\ child = NoChild
    /\ poll = NoPoll
    /\ host = NoHost
    /\ pr = NoResolve
    /\ sshConfig = None
    /\ es = NewEventStream
    /\ sh = NoShell
    /\ mk = NoMask
    /\ rp = NoRepl
    /\ ci = NoCloudInit
    /\ feed = NoFeed
    /\ vmProc = NoVm

NextCloudInit ==
    \/ \E pubKeyOk \in BOOLEAN, keys \in CloudInitKeySets : CloudInitPhase(pubKeyOk, keys)
    \/ \E ok \in BOOLEAN : IsoToolEnds(ok)
    \/ \E ok \in BOOLEAN : HdiutilEnds(ok)

SpecCloudInit == InitCloudInit /\ [][NextCloudInit]_vars

\* A value offered for a provider key, and a text that holds it.
InitAdmit ==
    /\ vName \in ProviderKeyNames
    /\ vValue \in AdmitValues
    /\ vResult = NotCalled
    /\ vMessage = <<>>
    /\ homeDir = FALSE
    /\ keysFile = NoFile
    /\ hmacFile = NoFile
    /\ auditLog = <<>>
    /\ ctxKeys = <<>>
    /\ staged = <<>>
    /\ sealedOf = NoSeal
    /\ writtenBy = "nobody"
    /\ lastVerify = NoVerify
    /\ lastLoad = NoLoad
    /\ lastSave = NoSave
    /\ pinFile = NoFile
    /\ knownHosts = None
    /\ conn = EmptyBag
    /\ wfs = "idle"
    /\ wfsMismatch = FALSE
    /\ last = NoAttempt
    /\ firstFp = <<>>
    /\ overlapped = FALSE
    /\ iStatus = "idle"
    /\ iPhase = 0
    /\ iStep = 0
    /\ started = <<>>
    /\ returned = {}
    /\ thrownIn = 0
    /\ ctx = NewCtx
    /\ qemu = "none"
    /\ vmPid = FALSE
    /\ configPorts = None
    /\ completionShown = FALSE
    /\ rInput \in {before \o vValue \o after : before \in Surroundings, after \in Surroundings}
    /\ rOutput = NotRedacted
    /\ aLog = <<>>
    /\ aBackup = NoFile
    /\ aLast = NoAudit
    /\ procEnv = [n \in EnvNames |-> Undefined]
    /\ clean = NoClean
    /\ child = NoChild
    /\ poll = NoPoll
    /\ host = NoHost
    /\ pr = NoResolve
    /\ sshConfig = None
    /\ es = NewEventStream
    /\ sh = NoShell
    /\ mk = NoMask
    /\ rp = NoRepl
    /\ ci = NoCloudInit
    /\ feed = NoFeed
    /\ vmProc = NoVm

NextAdmit ==
    \/ ValidateCall
    \/ RedactCall

SpecAdmit == InitAdmit /\ [][NextAdmit]_vars

\* The shell once the engine answered and the EventStream is made, with the engine's feed.
InitEvents ==
    /\ vName = None
    /\ vValue = <<>>
    /\ vResult = Returned
    /\ vMessage = <<>>
    /\ homeDir = FALSE
    /\ keysFile = NoFile
    /\ hmacFile = NoFile
    /\ auditLog = <<>>
    /\ ctxKeys = <<>>
    /\ staged = <<>>
    /\ sealedOf = NoSeal
    /\ writtenBy = "nobody"
    /\ lastVerify = NoVerify
    /\ lastLoad = NoLoad
    /\ lastSave = NoSave
    /\ pinFile = NoFile
    /\ knownHosts = None
    /\ conn = EmptyBag
    /\ wfs = "idle"
    /\ wfsMismatch = FALSE
    /\ last = NoAttempt
    /\ firstFp = <<>>
    /\ overlapped = FALSE
    /\ iStatus = "idle"
    /\ iPhase = 0
    /\ iStep = 0
    /\ started = <<>>
    /\ returned = {}
    /\ thrownIn = 0
    /\ ctx = NewCtx
    /\ qemu = "none"
    /\ vmPid = FALSE
    /\ configPorts = None
    /\ completionShown = FALSE
    /\ rInput = <<>>
    /\ rOutput = NotRedacted
    /\ aLog = <<>>
    /\ aBackup = NoFile
    /\ aLast = NoAudit
    /\ procEnv = [n \in EnvNames |-> Undefined]
    /\ clean = NoClean
    /\ child = NoChild
    /\ poll = NoPoll
    /\ host = NoHost
    /\ pr = NoResolve
    /\ sshConfig = None
    /\ es = NewEventStream
    /\ sh = NoShell
    /\ mk = NoMask
    /\ rp = NoRepl
    /\ ci = NoCloudInit
    /\ feed = NoFeed
    /\ vmProc = NoVm

NextEvents ==
    \/ \E hasConfig \in BOOLEAN : StreamStart(hasConfig)
    \/ StreamStop
    \/ EnginePublishes
    \/ \E h \in 1..MaxTimers : IntervalFires(h)
    \/ \E i \in 1..MaxPolls, n \in 0..Len(Feed), ok \in BOOLEAN : PollSettles(i, n, ok)

SpecEvents == InitEvents /\ [][NextEvents]_vars

\* An installation whose PID file holds any of the sampled texts, on a machine where
\* each sampled PID belongs to QEMU, to another program, or to no process.
InitStopVm ==
    /\ vName = None
    /\ vValue = <<>>
    /\ vResult = Returned
    /\ vMessage = <<>>
    /\ homeDir = FALSE
    /\ keysFile = NoFile
    /\ hmacFile = NoFile
    /\ auditLog = <<>>
    /\ ctxKeys = <<>>
    /\ staged = <<>>
    /\ sealedOf = NoSeal
    /\ writtenBy = "nobody"
    /\ lastVerify = NoVerify
    /\ lastLoad = NoLoad
    /\ lastSave = NoSave
    /\ pinFile = NoFile
    /\ knownHosts = None
    /\ conn = EmptyBag
    /\ wfs = "idle"
    /\ wfsMismatch = FALSE
    /\ last = NoAttempt
    /\ firstFp = <<>>
    /\ overlapped = FALSE
    /\ iStatus = "idle"
    /\ iPhase = 0
    /\ iStep = 0
    /\ started = <<>>
    /\ returned = {}
    /\ thrownIn = 0
    /\ ctx = NewCtx
    /\ qemu = "none"
    /\ vmPid = FALSE
    /\ configPorts = None
    /\ completionShown = FALSE
    /\ rInput = <<>>
    /\ rOutput = NotRedacted
    /\ aLog = <<>>
    /\ aBackup = NoFile
    /\ aLast = NoAudit
    /\ procEnv = [n \in EnvNames |-> Undefined]
    /\ clean = NoClean
    /\ child = NoChild
    /\ poll = NoPoll
    /\ host = NoHost
    /\ pr = NoResolve
    /\ sshConfig = None
    /\ es = NewEventStream
    /\ sh = NoShell
    /\ mk = NoMask
    /\ rp = NoRepl
    /\ ci = NoCloudInit
    /\ feed = NoFeed
    /\ vmProc \in [file : {NoFile} \cup {File(t) : t \in PidFileTexts}, table : [SamplePids -> Comms],
             calls : {0}, last : {NoStop}]

NextStopVm ==
    \/ \E p \in SamplePids : QemuWritesPid(p)
    \/ \E gone \in BOOLEAN : StopVmCall(gone)

SpecStopVm == InitStopVm /\ [][NextStopVm]_vars

(***************************************************************************)
(* Claims about the SSH trust layer                                        *)
(***************************************************************************)

\* C1: as long as no two connection attempts have overlapped since the pin file was
\* absent, the pin file holds exactly the fingerprint shown to the first verifier
\* that ran, and an attempt whose verifier ran was accepted exactly when it showed
\* that fingerprint (the first one included); a rejection leaves the pin as it was.
TofuSequential ==
    ~overlapped =>
        /\ (firstFp # <<>> => pinFile = File(firstFp))
        /\ (firstFp = <<>> => pinFile = NoFile)
        /\ (last.viaPin =>
                /\ (last.verdict # "rejected") = (Sha256Base64(last.key) = firstFp)
                /\ (last.verdict = "rejected" => last.report # "connected"))

\* C1 witness: after the pin was set, a later non-overlapping attempt showed another
\* key, was rejected, and the pin still holds the first fingerprint.
TofuSequentialWitness ==
    /\ ~overlapped
    /\ last.viaPin
    /\ last.verdict = "rejected"
    /\ pinFile = File(firstFp)
    /\ Sha256Base64(last.key) # firstFp

\* C4: every remote operation that connected had the endpoint's host key checked
\* against the pin by the host verifier.
NoUnverifiedPath ==
    last.report = "connected" => last.viaPin

\* C5: a host-key mismatch is reported as a thrown (fatal) error by the operation that
\* saw it, and waitForSsh never returns false (a timeout) after seeing one.
MismatchAlwaysFatal ==
    /\ (last.verdict = "rejected" => last.report = "thrown")
    /\ (wfs = "false" => ~wfsMismatch)

\* C6: once the pin file holds a fingerprint no step changes its content; only
\* destroy removes it.
PinImmutable ==
    [][pinFile # NoFile => (pinFile' = pinFile \/ (pinFile' = NoFile /\ Destroy(TRUE, "")))]_vars

(***************************************************************************)
(* Claims about the sealed store                                           *)
(***************************************************************************)

\* C2: whenever loadKeys has run on a store that the integrity policy classifies as
\* invalid (key file without seal, seal without key file, or key file whose bytes are
\* not the sealed bytes), it threw the integrity error and audited keys_tampered.
LoadRejectsInvalidStore ==
    LET invalid == \/ keysFile.exists /\ ~hmacFile.exists
                   \/ ~keysFile.exists /\ hmacFile.exists
                   \/ keysFile.exists /\ hmacFile.exists /\ keysFile.text # sealedOf.text
    IN lastLoad.called /\ invalid =>
          lastLoad.result = "DlpViolation" /\ lastLoad.audit = "keys_tampered"

NoOrphanedVm ==
    iStatus = "failed" => qemu # "running"

\* C8: the phases are run in list order, each at most once, a phase only after all
\* the phases before it returned normally; once a phase has thrown it is the last one
\* started; and the completion banner is shown only in a run where no phase threw
\* and every phase before the last returned normally.
PhasesInOrder ==
    /\ \A k \in DOMAIN started : started[k] = k
    /\ \A k \in DOMAIN started : k < Len(started) => k \in returned
    /\ thrownIn # 0 =>
          /\ started # <<>>
          /\ started[Len(started)] = thrownIn
          /\ thrownIn \notin returned
          /\ iStatus = "failed"
    /\ completionShown =>
          /\ thrownIn = 0
          /\ \A p \in 1..(TotalPhases - 1) : p \in returned

\* C8 witness: the provisioning phase threw after six phases returned; it is the last
\* phase started.
PhasesInOrderWitness ==
    /\ iStatus = "failed"
    /\ thrownIn = 7
    /\ Len(started) = 7
    /\ returned = 1..6

(***************************************************************************)
(* Claims about validateKeyValue                                           *)
(***************************************************************************)

\* C10: validateKeyValue throws the DlpViolation of the first check that fails, in the
\* order forbidden characters, length within [10, 256], shape for the four known
\* names, and returns normally exactly when no check that applies fails; a name that
\* is none of the four skips the shape check.
ChecksInFixedOrder ==
    vResult # NotCalled =>
        LET chars == \E i \in DOMAIN vValue : vValue[i] \in ForbiddenChars
            length == Len(vValue) < KeyMinLen \/ Len(vValue) > KeyMaxLen
            shape == vName \in KnownKeyNames /\ ~KeyValidatorTest(vName, vValue)
        IN vResult = IF chars THEN Violation("forbidden_chars")
                     ELSE IF length THEN Violation("length")
                     ELSE IF shape THEN Violation("format")
                     ELSE Returned

RedactTotalIdempotent ==
    LET AnyMatch(s) == \E k \in DOMAIN SecretPatterns : HasMatch(SecretPatterns[k], s)
        Holds(s, w) == \E i \in 0..(Len(s) - Len(w)) : SubSeq(s, i + 1, i + Len(w)) = w
    IN /\ ENABLED RedactCall <=> rOutput = NotRedacted
       /\ rOutput # NotRedacted =>
             /\ ~AnyMatch(rOutput)
             /\ (AnyMatch(rInput) => Holds(rOutput, Placeholder))
             /\ (~AnyMatch(rInput) => rOutput = rInput)
             /\ Redact(rOutput) = rOutput

\* C12 witness: redact returned on a string with matches of two patterns, one of them
\* twice, and changed it.
RedactTotalIdempotentWitness ==
    /\ rOutput # NotRedacted
    /\ rOutput # rInput
    /\ HasMatch(SecretPatterns[2], rInput)
    /\ HasMatch(SecretPatterns[3], rInput)
    /\ ReplaceAll(SecretPatterns[3], rInput) # ReplaceFirst(SecretPatterns[3], rInput)

\* C13: 'keys set ANTHROPIC_API_KEY' with a valid value on a store that verifies
\* leaves the value under that name in the file and a seal that verifies, and appends
\* exactly one line to the audit log, a line that holds the placeholder and not the
\* value.
KeysSetAuditsOnce ==
    [][LET secret == Lookup(ParseKeys(keysFile.text), MasterName)
           Holds(s, w) == \E i \in 0..(Len(s) - Len(w)) : SubSeq(s, i + 1, i + Len(w)) = w
       IN (/\ keysFile.exists
           /\ Truthy(secret)
           /\ VerifyKeysFile(keysFile, hmacFile, secret) = "true"
           /\ KeysSet("ANTHROPIC_API_KEY", NewAnthropic))
          => /\ lastSave'.threw = None
             /\ Lookup(ParseKeys(keysFile'.text), "ANTHROPIC_API_KEY") = NewAnthropic
             /\ VerifyKeysFile(keysFile', hmacFile', Lookup(ParseKeys(keysFile'.text), MasterName)) = "true"
             /\ Len(auditLog') = Len(auditLog) + 1
             /\ Holds(auditLog'[Len(auditLog')].detail, Placeholder)
             /\ ~Holds(auditLog'[Len(auditLog')].detail, NewAnthropic)]_vars

\* C14: when saveKeys raised an error after it wrote the secret file, the store on
\* disk is a sealed record, the one saveKeys was given: a loadKeys verifies it and
\* returns it.
SaveKeysAtomic ==
    (lastSave.called /\ lastSave.threw # None /\ ~lastSave.untouched) =>
        LET ld == LoadKeys(Store)
            secret == Lookup(ld.keys, MasterName)
        IN /\ ld.result = "keys"
           /\ ld.keys = lastSave.keys
           /\ Truthy(secret)
           /\ VerifyKeysFile(keysFile, hmacFile, secret) = "true"

(***************************************************************************)
(* Claims about the audit trail                                            *)
(***************************************************************************)

\* C15: an audit call that finds audit.log above the ceiling moves it to audit.log.1,
\* in place of any earlier backup, and appends its line to a fresh audit.log;
\* otherwise it appends its line at the end. No call changes or reorders the lines
\* audit.log holds, and audit.log is above the ceiling by at most its last line.
AuditRotatesOneGeneration ==
    [][homeDir' = homeDir =>
          LET over == FileSize(aLog) > MaxAuditSize
              appended == Len(aLog') = Len(aLog) + 1 /\ SubSeq(aLog', 1, Len(aLog)) = aLog
          IN /\ (homeDir /\ aLast'.failed = None) =>
                    IF over THEN aBackup' = File(aLog) /\ Len(aLog') = 1
                    ELSE aBackup' = aBackup /\ appended
             /\ \/ aLog' = aLog
                \/ appended
                \/ over /\ aBackup' = File(aLog) /\ Len(aLog') <= 1
             /\ FileSize(aLog') > MaxAuditSize =>
                    FileSize(SubSeq(aLog', 1, Len(aLog') - 1)) <= MaxAuditSize]_vars

\* C15 witness: audit.log was rotated to a backup, and the log written since is above
\* the ceiling again.
AuditRotatesOneGenerationWitness ==
    /\ aBackup.exists
    /\ FileSize(aBackup.text) > MaxAuditSize
    /\ FileSize(aLog) > MaxAuditSize
    /\ aLast.called /\ aLast.failed = None

\* C16: an audit call returns normally whichever of its file-system calls fails; it
\* changes nothing but audit.log and audit.log.1, so its caller goes on as after a
\* call that wrote its line; and with the installation directory missing it writes
\* nothing and does not create the directory.
AuditBestEffort ==
    [][(~EnsureHome /\ \A force \in BOOLEAN, confirm \in ConfirmInputs : ~Destroy(force, confirm)) =>
          /\ aLast'.called /\ aLast'.threw = None
          /\ UNCHANGED <<validateVars, storeVars, trustVars, initVars, redactVars, envVars, poll, portVars, shellVars, maskVars, replVars, cloudInitVars, feedVars, stopVmVars>>
          /\ ~homeDir => (aLog' = aLog /\ aBackup' = aBackup /\ aLog' = <<>> /\ ~aBackup'.exists)
          /\ aLast'.failed # None => (aLog' = aLog \/ aLog' = <<>>)]_vars

\* C16 witness: the rename of a rotation failed after the earlier backup was
\* unlinked, and the call returned.
AuditBestEffortWitness ==
    /\ aLast.called
    /\ aLast.failed = "rename"
    /\ aLast.threw = None
    /\ ~aBackup.exists
    /\ FileSize(aLog) > MaxAuditSize

\* C17: every line of audit.log and of its backup holds an event of the AuditEvent
\* enumeration and a detail that went through redact.
AuditEventsClosed ==
    LET lines == aLog \o (IF aBackup.exists THEN aBackup.text ELSE <<>>)
    IN \A i \in DOMAIN lines :
          /\ lines[i].event \in AuditEvents
          /\ Redact(lines[i].detail) = lines[i].detail

(***************************************************************************)
(* Claims about the environment of subprocesses                            *)
(***************************************************************************)

\* C18: scrubEnv returns exactly the ambient variables whose name is not on the
\* denylist and whose value has no match of a secret pattern, each with its ambient
\* value; the call leaves process.env as it is, and so does every later change to the
\* object it returned.
ScrubEnvExactCopy ==
    [][/\ procEnv' = procEnv
       /\ (clean'.fresh /\ clean' # clean) =>
             \A n \in EnvNames :
                LET kept == /\ procEnv[n] # Undefined
                            /\ n \notin ScrubKeys
                            /\ \A k \in DOMAIN SecretPatterns : ~HasMatch(SecretPatterns[k], procEnv[n])
                IN clean'.env[n] = IF kept THEN procEnv[n] ELSE Undefined]_vars

\* C18 witness: the ambient environment holds a denylisted variable and a variable
\* with a secret-shaped value; the object scrubEnv returned has neither, and was
\* changed afterwards.
ScrubEnvExactCopyWitness ==
    /\ Truthy(procEnv["ANTHROPIC_API_KEY"])
    /\ \E k \in DOMAIN SecretPatterns : HasMatch(SecretPatterns[k], procEnv["MY_TOKEN"])
    /\ Truthy(procEnv["PATH"])
    /\ clean.ref # None /\ ~clean.fresh
    /\ clean.env["ANTHROPIC_API_KEY"] = Undefined
    /\ clean.env["MY_TOKEN"] = Undefined
    /\ clean.env["PATH"] = Changed

\* C19: every subprocess other than the remote shell is started with the object of
\* a scrubEnv call as its environment.
ChildrenGetScrubbedEnv ==
    child # NoChild =>
        /\ child.site.env = "scrubEnv"
        /\ child.env = ScrubEnv(procEnv)

(***************************************************************************)
(* Claims about the readiness waits                                        *)
(***************************************************************************)

\* C20: a readiness wait returns either after a probe that showed readiness (true,
\* or the URL) or once its timeout has elapsed (false, or null); a probe that throws
\* or reports failure never ends it.
WaitEndsOnReadyOrTimeout ==
    poll.pc = "returned" =>
        \/ poll.probe = "ready" /\ poll.result \in {"true", "url"}
        \/ poll.result \in {"false", "null"} /\ poll.elapsed >= poll.timeoutMs

\* C21: a wait whose probe first succeeds on its 3rd call returns true no sooner than
\* three poll intervals after it began, and a wait whose probe never succeeds returns
\* false once the timeout has elapsed and less than one poll interval after it.
WaitTiming ==
    (poll.pc = "returned" /\ poll.fn # "startTunnel") =>
        /\ (poll.result = "true" /\ poll.calls = 3) => poll.elapsed >= 3 * PollInterval(poll.fn)
        /\ poll.result = "false" =>
              /\ poll.elapsed >= poll.timeoutMs
              /\ poll.elapsed < poll.timeoutMs + PollInterval(poll.fn)

(***************************************************************************)
(* Claims about port negotiation                                           *)
(***************************************************************************)

\* C22: the prompt for an occupied port always offers abort; when the process holding
\* the port cannot be identified it offers the alternate port and abort, and not the
\* kill.
PortChoicesWithoutOccupant ==
    pr.pc = "select" =>
        /\ "abort" \in pr.choices
        /\ host.occ[CurrentKey] = "hidden" => ("alt" \in pr.choices /\ "kill" \notin pr.choices)

\* C22 (amended): the prompt for an occupied port always offers abort; when the process
\* holding the port cannot be identified it does not offer the kill, and it offers the
\* alternate port exactly when one of the ScanMax ports after the occupied one is
\* free, the alternate being the first of them.
PortChoicesWhenAlternateExists ==
    pr.pc = "select" =>
        /\ "abort" \in pr.choices
        /\ host.occ[CurrentKey] = "hidden" =>
              LET port == RequestedPorts[CurrentKey]
                  freeNear == {d \in 1..ScanMax : IsPortFree(host, port + d)}
              IN /\ "kill" \notin pr.choices
                 /\ "alt" \in pr.choices <=> freeNear # {}
                 /\ freeNear # {} => /\ pr.alt - port \in freeNear
                                     /\ \A d \in freeNear : pr.alt - port <= d

PortChoicesWhenAlternateExistsWitness ==
    /\ pr.pc = "select"
    /\ host.occ[CurrentKey] = "hidden"
    /\ pr.choices = {"alt", "abort"}
    /\ pr.alt = RequestedPorts[CurrentKey] + 2

\* C23: once the operator has answered abort at the port prompt nothing changes any
\* more, and at that point init has exited with no QEMU process and no pid file, with
\* vmLaunched false, phase 6 not returned, no later phase started and the completion
\* not shown.
AbortEndsInit ==
    [][/\ pr.action # "abort"
       /\ pr'.action = "abort" =>
             /\ iStatus' = "exited"
             /\ qemu' = "none" /\ ~vmPid' /\ ~ctx'.vmLaunched
             /\ started' = <<1, 2, 3, 4, 5, 6>> /\ 6 \notin returned'
             /\ ~completionShown'
             /\ auditLog' = auditLog]_vars

AbortEndsInitWitness ==
    /\ pr.action = "abort"
    /\ iStatus = "exited"
    /\ iPhase = 6
    /\ returned = {1, 2, 3, 4, 5}

\* C24: when resolvePortConflicts returns, the most recent probe of each port it
\* returns found the port free on both addresses, and neither a kill signal nor the
\* operator's selection for that port came after that probe.
ReturnedPortsConfirmedFree ==
    pr.pc = "returned" =>
        \A k \in DOMAIN pr.resolved :
            LET probes == {j \in DOMAIN pr.log : pr.log[j].ev = "probe" /\ pr.log[j].port = pr.resolved[k]}
            IN /\ probes # {}
               /\ LET latest == CHOOSE j \in probes : \A j2 \in probes : j2 <= j
                  IN /\ pr.log[latest].free
                     /\ \A j \in DOMAIN pr.log :
                           (j > latest /\ pr.log[j].key = k) => pr.log[j].ev \notin {"SIGTERM", "SIGKILL", "select"}

\* C25: SIGTERM is the first signal a kill sends; the port is probed again right
\* after it; SIGKILL is sent only right after that probe found the port still
\* occupied, to the process that got the SIGTERM; a probe that found the port free
\* ends the signalling; and the call exits with 1, returning no ports, only out of a
\* kill the operator chose (when process.kill threw).
KillEscalates ==
    LET log == pr.log
        IsSignal(j) == log[j].ev \in {"SIGTERM", "SIGKILL"}
    IN /\ \A j \in DOMAIN log :
            /\ log[j].ev = "SIGTERM" =>
                  /\ j > 1 /\ log[j-1].ev = "select" /\ log[j-1].key = log[j].key
                  /\ log[j].port = PidOf(log[j].key)
                  /\ j < Len(log) => log[j+1].ev = "probe" /\ log[j+1].port = RequestedPorts[log[j].key]
            /\ log[j].ev = "SIGKILL" =>
                  /\ j > 2
                  /\ log[j-1].ev = "probe" /\ ~log[j-1].free
                  /\ log[j-1].port = RequestedPorts[log[j].key]
                  /\ log[j-2].ev = "SIGTERM" /\ log[j-2].port = log[j].port
            /\ (IsSignal(j) /\ j < Len(log) /\ log[j+1].ev = "probe" /\ log[j+1].free) =>
                  \A j2 \in DOMAIN log : (j2 > j /\ IsSignal(j2)) => log[j2].key # log[j].key
       /\ pr.pc = "sigterm" => pr.action = "kill" /\ pr.blocker # 0
       /\ pr.pc = "sigkill" => log[Len(log)].ev = "probe" /\ ~log[Len(log)].free
       /\ pr.pc = "exit 1" => pr.action = "kill" /\ log[Len(log)].ev # "SIGKILL"

KillEscalatesWitness ==
    /\ pr.pc = "returned"
    /\ \E j \in DOMAIN pr.log : pr.log[j].ev = "SIGKILL"
    /\ \E j \in DOMAIN pr.log : 
          /\ pr.log[j].ev = "SIGTERM" 
          /\ j + 1 < Len(pr.log) /\ pr.log[j+1].free /\ pr.log[j+2].ev = "probe"

\* C26: when init has completed, the ports in config.json and the Port of the
\* "Host nexus-vm" entry of the ssh config are the ports the VM was launched with.
PersistedPortsAreLaunchPorts ==
    iStatus = "completed" =>
        /\ configPorts = ctx.resolvedPorts
        /\ sshConfig = ctx.resolvedPorts

(***************************************************************************)
(* Claims about the shell session                                          *)
(***************************************************************************)

\* C27: at most one remote operation of a session is in flight at any time.
OneRemoteOperationAtATime ==
    Flying <= 1

\* C28: at most one polling timer is scheduled at any time, and after a stop() none is.
PollTimerNeverLeaks ==
    /\ Cardinality(es.timers) <= 1
    /\ es.lastCall = "stop" => es.timers = {}

(***************************************************************************)
(* Claims about destroy                                                    *)
(***************************************************************************)

\* C29: a destroy with --force or with exactly "destroy" typed leaves no VM of the
\* installation running and none of the installation's files: no pid file, no
\* configuration, no key file, no seal, no audit log, no host pin, no known-hosts
\* entry and no ssh config entry; verifyKeysFile then reports true, and the verifier
\* of the next connection finds no pin. A destroy with any other input changes
\* nothing.
DestroyRemovesInstallation ==
    [][\A force \in BOOLEAN, confirm \in ConfirmInputs :
          Destroy(force, confirm) =>
              /\ force \/ confirm = "destroy"
              /\ qemu' # "running" /\ ~vmPid' /\ configPorts' = None
              /\ ~homeDir' /\ ~keysFile'.exists /\ ~hmacFile'.exists
              /\ auditLog' = <<>> /\ aLog' = <<>> /\ ~aBackup'.exists
              /\ ~pinFile'.exists /\ knownHosts' = None /\ sshConfig' = None
              /\ \A secret \in GeneratedSecrets : VerifyKeysFile(keysFile', hmacFile', secret) = "true"
              /\ GetHostVerifier'.mode = "pin"]_vars

\* C29 witness: init completed, its VM was running, and destroy stopped it and removed
\* the installation.
DestroyRemovesInstallationWitness ==
    /\ iStatus = "completed"
    /\ qemu = "terminated"
    /\ ~vmPid /\ ~homeDir /\ ~keysFile.exists /\ ~pinFile.exists
    /\ configPorts = None

\* C30: maskKey(key) is '***' for a key of at most 8 characters and otherwise the
\* first r and the last r characters of the key around '...', with
\* r = min(4, floor(length / 10)); so the output shows at most 2r characters of
\* the key, and never holds the whole key.
MaskKeyRevealsAtMostTenPercent ==
    mk.called =>
        LET n == Len(mk.key)
            r == IF n \div 10 < 4 THEN n \div 10 ELSE 4
        IN  /\ n <= 8 => mk.result = Stars
            /\ n > 8 => /\ mk.result = SubSeq(mk.key, 1, r) \o Dots \o SubSeq(mk.key, n - r + 1, n)
                        /\ Len(mk.result) - Len(Dots) <= 2 * r
                        /\ 10 * r <= n
                        /\ r <= 4
            /\ n > 0 => ~Contains(mk.result, mk.key)

\* C31: the pin file is written only by a connection attempt that goes on to
\* complete: an attempt that ends in a failure leaves an unpinned installation
\* unpinned and audits no pinning event.
PinOnlyOnSuccessfulHandshake ==
    [][(~pinFile.exists /\ last'.report # "connected" /\ last' # NoAttempt) =>
          (~pinFile'.exists /\ last'.verdict # "pinned")]_vars

\* C32: from a store for which loadKeys reports tampering, keys set with a known name
\* and a value that validateKeyValue accepts leaves a store that loadKeys loads and
\* whose seal verifies.
KeysSetRemediatesTampering ==
    [][\A n \in KeysSetNames, v \in KeysSetValues :
          (/\ LoadKeys(Store).result = "DlpViolation"
           /\ ToUpperCase(n) \in KnownKeyNames
           /\ v # <<>>
           /\ ValidateKeyValue(ToUpperCase(n), v).threw = None
           /\ KeysSet(n, v))
          => (LoadKeys(Store).result = "keys")']_vars

NoPlaintextAfterCloudInit ==
    (ci.pc = "done" /\ ci.result \in {"iso", "Error"}) =>
        /\ ~ci.userData.exists
        /\ ~ci.metaData
        /\ ~ci.staged.exists

\* C35: a value that validateKeyValue accepts for a provider key does not occur in
\* what redact returns for a text that holds it.
RedactCoversValidated ==
    (vResult = Returned /\ rOutput # NotRedacted) => ~Contains(rOutput, vValue)

\* C36: the three ports resolvePortConflicts returns are pairwise distinct.
ResolvedPortsDistinct ==
    pr.pc = "returned" =>
        \A k, l \in DOMAIN pr.resolved : k # l => pr.resolved[k] # pr.resolved[l]

\* C36, amended: when every two requested ports are more than ScanMax apart, as the
\* ports of init are, the three ports returned are pairwise distinct.
ResolvedPortsDistinctWhenApart ==
    (/\ pr.pc = "returned"
     /\ \A k, l \in DOMAIN RequestedPorts :
           k # l => (RequestedPorts[k] - RequestedPorts[l] > ScanMax
                        \/ RequestedPorts[l] - RequestedPorts[k] > ScanMax))
    => \A k, l \in DOMAIN pr.resolved : k # l => pr.resolved[k] # pr.resolved[l]

\* C36 witness: with the HTTP port ScanMax + 1 above the SSH port, both were taken
\* and both were moved to their alternates.
ResolvedPortsDistinctWhenApartWitness ==
    /\ pr.pc = "returned"
    /\ RequestedPorts.http = RequestedPorts.ssh + ScanMax + 1
    /\ pr.resolved.ssh # RequestedPorts.ssh
    /\ pr.resolved.http # RequestedPorts.http

(***************************************************************************)
(* Claims about the event feed                                             *)
(***************************************************************************)

\* C37: between a stop() and the next start() of the EventStream, while active is
\* false, no event is handed to onEvent, not even one parsed from a poll that was in
\* flight when stop() was called.
NoDeliveryWhileStopped ==
    [][~feed.stream.active => feed'.delivered = feed.delivered]_vars

\* C38: no event id is handed to onEvent twice, and lastId never moves back.
DeliveredOnceInOrder ==
    [][/\ \A i, j \in DOMAIN feed'.delivered :
              (i < j /\ feed'.delivered[i] # 0) => feed'.delivered[i] # feed'.delivered[j]
       /\ feed'.stream.lastId >= feed.stream.lastId]_vars

(***************************************************************************)
(* Claims about stopping the VM                                            *)
(***************************************************************************)

\* A string that writes an integer and nothing else: decimal digits, after a sign
\* or without one.
IsDecimal(s) ==
    LET d == IF s # <<>> /\ Head(s) \in {"+", "-"} THEN Tail(s) ELSE s
    IN d # <<>> /\ \A i \in DOMAIN d : d[i] \in DigitChars

====
